---------------------------- MODULE Spec2Model ----------------------------
(***************************************************************************)
(* Planner ordering subsystem of src/backend/optimizer/path/pathkeys.c:    *)
(* the registry of equijoined keys (equi_key_list), canonical pathkeys     *)
(* and their comparison.                                                   *)
(*                                                                         *)
(* A List of PathKeyItems (one pathkey sublist, one equivalence set) is a  *)
(* heap object: heap maps the address of the list to its members in list   *)
(* order.  A List of sublists (equi_key_list, a pathkeys list) is the      *)
(* sequence of the addresses of its sublists.  Cells no root points to     *)
(* any more (the two-element list that LispUnion copied) are not kept.     *)
(***************************************************************************)
EXTENDS Naturals, Integers, Sequences, FiniteSets, TLC

\* ------------------------------------------------------------ bounds
\* number of distinct clauses given to add_equijoined_keys (SpecReg)
MaxAdds == 3
\* longest pathkeys list, and longest list of sort clauses
MaxPathLen == 2

\* the longest list of candidate Paths
MaxPaths == 3

\* the most joinrels made when the calls come in any order
MaxJoinRels == 2

\* the longest list of restrictinfos given to find_mergeclauses_for_pathkeys
MaxClauses == 3

\* the most rows the query of a portal yields
MaxRows == 3

\* the largest count of a FETCH or MOVE other than 'all'
MaxCount == 2

\* ------------------------------------------------------------ values
\* the key expressions (Vars) the query's clauses mention
Exprs == {"A.X", "B.Y", "C.Z"}

\* sort operators; cross-type mergejoins give the two sides different ones
Sortops == {"int4lt", "int8lt"}

NIL == << >>

\* makePathKeyItem(key, sortop)
makePathKeyItem(key, sortop) == [key |-> key, sortop |-> sortop]

PathKeyItems == {makePathKeyItem(e, o) : e \in Exprs, o \in Sortops}

\* a mergejoinable clause: left operand = right operand, with per-side sortops
RestrictInfos ==
  [leftop : Exprs, rightop : Exprs, left_sortop : Sortops, right_sortop : Sortops]

\* the planning specification scans clauses over two of the expressions, so
\* that every registry over them can be paired with every pathkeys list
PlanExprs == {"A.X", "B.Y"}

PlanItems == {makePathKeyItem(e, o) : e \in PlanExprs, o \in Sortops}

PlanRestrictInfos ==
  [leftop : PlanExprs, rightop : PlanExprs,
   left_sortop : Sortops, right_sortop : Sortops]

\* a SortClause with the targetlist expression it refers to
SortClauses == [expr : PlanExprs, sortop : Sortops]

\* the sequences over S of length 0..n
SeqsUpTo(S, n) == UNION {[1..m -> S] : m \in 0..n}

VARIABLES
  equi_key_list,   \* root->equi_key_list: addresses of the equivalence sets
  heap,            \* address of a sublist -> its PathKeyItems, in list order
  scanning,        \* TRUE while the WHERE clause is still scanned for equijoins
  recorded,        \* history: the pairs {item1, item2} given to add_equijoined_keys
  call,            \* the last operation called and its arguments
  pathkeys,        \* the pathkeys list the planner holds: addresses of sublists
  keys1,           \* compare_pathkeys: first argument, sublists by content
  keys2,           \* compare_pathkeys: second argument, sublists by content
  comparison,      \* compare_pathkeys: the PathKeysComparison returned
  contained,       \* pathkeys_contained_in(keys1, keys2): <<the bool returned>>
  paths,           \* get_cheapest_path_for_pathkeys: the candidate Paths
  required,        \* get_cheapest_path_for_pathkeys: its 'pathkeys' argument
  matched_path,    \* <<the Path returned>>: its position in paths, 0 for NULL
  base_rel_list,   \* root->base_rel_list: addresses of RelOptInfos
  other_rel_list,  \* root->other_rel_list
  join_rel_list,   \* root->join_rel_list
  relnodes,        \* address of a RelOptInfo -> its fields
  quals,           \* the join clauses distributed to the base rels so far
  estimated,       \* history: the nodes given to set_joinrel_size_estimates
  portals          \* the portal hash table: portal name -> Portal

cmpvars == <<keys1, keys2, comparison, contained>>

pathvars == <<paths, required, matched_path>>

relvars == <<base_rel_list, other_rel_list, join_rel_list, relnodes, quals,
             estimated>>

vars == <<equi_key_list, heap, scanning, recorded, call, pathkeys,
          cmpvars, pathvars, relvars, portals>>

\* ------------------------------------------------------------ list primitives
Range(s) == {s[i] : i \in 1..Len(s)}

RECURSIVE Reach(_, _)
\* the keys connected to a key of S by the pairs of rec
Reach(S, rec) ==
  LET N == S \cup UNION {p \in rec : p \cap S # {}}
  IN IF N = S THEN S ELSE Reach(N, rec)

\* equal() on two PathKeyItems: same key expression and same sortop
equal(a, b) == a.key = b.key /\ a.sortop = b.sortop

\* member(item, list): some element of the list is equal() to item
member(item, list) == \E i \in 1..Len(list) : equal(item, list[i])

lcons(x, list) == <<x>> \o list

lappend(list, x) == Append(list, x)

RECURSIVE LispUnionLoop(_, _)
LispUnionLoop(retval, l2) ==
  IF l2 = NIL THEN retval
  ELSE LispUnionLoop(IF member(Head(l2), retval) THEN retval
                     ELSE lappend(retval, Head(l2)),
                     Tail(l2))

\* LispUnion(l1, l2): l1 plus the members of l2 not already present
LispUnion(l1, l2) == LispUnionLoop(l1, l2)

RECURSIVE lremove(_, _)
\* lremove(elem, list): unlink the first cell that holds elem (pointer equality)
lremove(elem, list) ==
  IF list = NIL THEN NIL
  ELSE IF Head(list) = elem THEN Tail(list)
  ELSE lcons(Head(list), lremove(elem, Tail(list)))

\* freeList(list): the cells of the list at address a are released
freeList(h, a) == [x \in (DOMAIN h) \ {a} |-> h[x]]

\* palloc: an address no live list has
NewAddr(h) == CHOOSE a \in 1..(Cardinality(DOMAIN h) + 1) :
                 a \notin DOMAIN h /\ \A b \in 1..(a - 1) : b \in DOMAIN h

Store(h, a, list) == [x \in (DOMAIN h) \cup {a} |-> IF x = a THEN list ELSE h[x]]

\* ------------------------------------------------------------ add_equijoined_keys
RECURSIVE SweepKeepingOldSets(_, _, _, _)
\* the sweep without the lremove and freeList of the set merged
SweepKeepingOldSets(cursetlinks, item1, item2, st) ==
  IF cursetlinks = NIL THEN st
  ELSE LET curset == Head(cursetlinks)
       IN IF member(item1, st.heap[curset]) \/ member(item2, st.heap[curset])
          THEN SweepKeepingOldSets(Tail(cursetlinks), item1, item2,
                 [newset        |-> LispUnion(st.newset, st.heap[curset]),
                  equi_key_list |-> st.equi_key_list,
                  heap          |-> st.heap])
          ELSE SweepKeepingOldSets(Tail(cursetlinks), item1, item2, st)

RECURSIVE SweepItem1Only(_, _, _, _)
\* the sweep testing member(item1, curset) alone
SweepItem1Only(cursetlinks, item1, item2, st) ==
  IF cursetlinks = NIL THEN st
  ELSE LET curset == Head(cursetlinks)
       IN IF member(item1, st.heap[curset])
          THEN SweepItem1Only(Tail(cursetlinks), item1, item2,
                 [newset        |-> LispUnion(st.newset, st.heap[curset]),
                  equi_key_list |-> lremove(curset, st.equi_key_list),
                  heap          |-> freeList(st.heap, curset)])
          ELSE SweepItem1Only(Tail(cursetlinks), item1, item2, st)

RECURSIVE SweepWithoutUnion(_, _, _, _)
\* the sweep removing the matching set without the LispUnion into newset
SweepWithoutUnion(cursetlinks, item1, item2, st) ==
  IF cursetlinks = NIL THEN st
  ELSE LET curset == Head(cursetlinks)
       IN IF member(item1, st.heap[curset]) \/ member(item2, st.heap[curset])
          THEN SweepWithoutUnion(Tail(cursetlinks), item1, item2,
                 [newset        |-> st.newset,
                  equi_key_list |-> lremove(curset, st.equi_key_list),
                  heap          |-> freeList(st.heap, curset)])
          ELSE SweepWithoutUnion(Tail(cursetlinks), item1, item2, st)

RECURSIVE SweepEquiKeyList(_, _, _, _)
\* the foreach over root->equi_key_list: cursetlinks are the cells still to
\* visit, st = [newset, equi_key_list, heap] is what the loop has built
SweepEquiKeyList(cursetlinks, item1, item2, st) ==
  IF cursetlinks = NIL THEN st
  ELSE LET curset == Head(cursetlinks)
       IN IF member(item1, st.heap[curset]) \/ member(item2, st.heap[curset])
          THEN SweepEquiKeyList(Tail(cursetlinks), item1, item2,
                 [newset        |-> LispUnion(st.newset, st.heap[curset]),
                  equi_key_list |-> lremove(curset, st.equi_key_list),
                  heap          |-> freeList(st.heap, curset)])
          ELSE SweepEquiKeyList(Tail(cursetlinks), item1, item2, st)

\* add_equijoined_keys without the test for a clause X=X
add_equijoined_keys_NoSelfTest(h, ekl, restrictinfo) ==
  LET item1 == makePathKeyItem(restrictinfo.leftop, restrictinfo.left_sortop)
      item2 == makePathKeyItem(restrictinfo.rightop, restrictinfo.right_sortop)
      st == SweepEquiKeyList(ekl, item1, item2,
              [newset        |-> lcons(item1, lcons(item2, NIL)),
               equi_key_list |-> ekl,
               heap          |-> h])
      a  == NewAddr(st.heap)
  IN [equi_key_list |-> lcons(a, st.equi_key_list),
      heap          |-> Store(st.heap, a, st.newset)]

\* add_equijoined_keys comparing the two key expressions and not the sortops
add_equijoined_keys_KeyOnlyTest(h, ekl, restrictinfo) ==
  LET item1 == makePathKeyItem(restrictinfo.leftop, restrictinfo.left_sortop)
      item2 == makePathKeyItem(restrictinfo.rightop, restrictinfo.right_sortop)
  IN IF item1.key = item2.key
     THEN [equi_key_list |-> ekl, heap |-> h]
     ELSE LET st == SweepEquiKeyList(ekl, item1, item2,
                      [newset        |-> lcons(item1, lcons(item2, NIL)),
                       equi_key_list |-> ekl,
                       heap          |-> h])
              a  == NewAddr(st.heap)
          IN [equi_key_list |-> lcons(a, st.equi_key_list),
              heap          |-> Store(st.heap, a, st.newset)]

\* add_equijoined_keys(root, restrictinfo): the registry after the call
add_equijoined_keys(h, ekl, restrictinfo) ==
  LET item1 == makePathKeyItem(restrictinfo.leftop, restrictinfo.left_sortop)
      item2 == makePathKeyItem(restrictinfo.rightop, restrictinfo.right_sortop)
  IN IF equal(item1, item2)
     THEN [equi_key_list |-> ekl, heap |-> h]
     ELSE LET st == SweepEquiKeyList(ekl, item1, item2,
                      [newset        |-> lcons(item1, lcons(item2, NIL)),
                       equi_key_list |-> ekl,
                       heap          |-> h])
              a  == NewAddr(st.heap)
          IN [equi_key_list |-> lcons(a, st.equi_key_list),
              heap          |-> Store(st.heap, a, st.newset)]

\* ------------------------------------------------------------ make_canonical_pathkey
RECURSIVE FindEquiKeySet(_, _, _)
\* the foreach of make_canonical_pathkey: the first set item is a member of,
\* 0 when the loop falls through
FindEquiKeySet(h, cursetlinks, item) ==
  IF cursetlinks = NIL THEN 0
  ELSE IF member(item, h[Head(cursetlinks)]) THEN Head(cursetlinks)
  ELSE FindEquiKeySet(h, Tail(cursetlinks), item)

\* make_canonical_pathkey returning a copy of the set found
make_canonical_pathkey_Copy(h, ekl, item) ==
  LET curset == FindEquiKeySet(h, ekl, item)
  IN IF curset # 0
     THEN [list |-> NewAddr(h), heap |-> Store(h, NewAddr(h), h[curset])]
     ELSE [list |-> NewAddr(h), heap |-> Store(h, NewAddr(h), lcons(item, NIL))]

\* make_canonical_pathkey returning the first set without the member() test
make_canonical_pathkey_FirstSet(h, ekl, item) ==
  IF ekl # NIL
  THEN [list |-> Head(ekl), heap |-> h]
  ELSE [list |-> NewAddr(h), heap |-> Store(h, NewAddr(h), lcons(item, NIL))]

\* make_canonical_pathkey(root, item): the sublist returned and the heap after
make_canonical_pathkey(h, ekl, item) ==
  LET curset == FindEquiKeySet(h, ekl, item)
  IN IF curset # 0
     THEN [list |-> curset, heap |-> h]
     ELSE [list |-> NewAddr(h), heap |-> Store(h, NewAddr(h), lcons(item, NIL))]

\* ------------------------------------------------------------ canonicalize_pathkeys
RECURSIVE CanonicalizeLoopCons(_, _, _, _)
\* the loop building new_pathkeys with lcons in place of lappend
CanonicalizeLoopCons(h, ekl, i, new_pathkeys) ==
  IF i = NIL THEN [list |-> new_pathkeys, heap |-> h]
  ELSE LET item == Head(h[Head(i)])
           r    == make_canonical_pathkey(h, ekl, item)
       IN CanonicalizeLoopCons(r.heap, ekl, Tail(i), lcons(r.list, new_pathkeys))

RECURSIVE CanonicalizeLoop(_, _, _, _)
\* the foreach of canonicalize_pathkeys: i are the cells still to visit
CanonicalizeLoop(h, ekl, i, new_pathkeys) ==
  IF i = NIL THEN [list |-> new_pathkeys, heap |-> h]
  ELSE LET item == Head(h[Head(i)])
           r    == make_canonical_pathkey(h, ekl, item)
       IN CanonicalizeLoop(r.heap, ekl, Tail(i), lappend(new_pathkeys, r.list))

\* canonicalize_pathkeys(root, pathkeys): the new list and the heap after
canonicalize_pathkeys(h, ekl, pks) == CanonicalizeLoop(h, ekl, pks, NIL)

\* ------------------------------------------------------------ make_pathkeys_for_sortclauses
RECURSIVE SortclausesLoop(_, _, _)
SortclausesLoop(h, i, pks) ==
  IF i = NIL THEN [list |-> pks, heap |-> h]
  ELSE LET pathkey == makePathKeyItem(Head(i).expr, Head(i).sortop)
           a       == NewAddr(h)
       IN SortclausesLoop(Store(h, a, lcons(pathkey, NIL)), Tail(i), lappend(pks, a))

\* make_pathkeys_for_sortclauses(sortclauses, tlist): one one-element sublist
\* per clause, not canonical
make_pathkeys_for_sortclauses(h, sortclauses) == SortclausesLoop(h, sortclauses, NIL)

\* ------------------------------------------------------------ make_pathkeys_for_mergeclauses
RECURSIVE MergeclausesLoop_NotCanonical(_, _, _, _)
\* the loop making a new one-element sublist per clause, as for sort clauses
MergeclausesLoop_NotCanonical(h, ekl, i, pks) ==
  IF i = NIL THEN [list |-> pks, heap |-> h]
  ELSE LET item == makePathKeyItem(Head(i).leftop, Head(i).left_sortop)
           a    == NewAddr(h)
       IN MergeclausesLoop_NotCanonical(Store(h, a, lcons(item, NIL)), ekl,
                                        Tail(i), lappend(pks, a))

RECURSIVE MergeclausesLoop(_, _, _, _)
MergeclausesLoop(h, ekl, i, pks) ==
  IF i = NIL THEN [list |-> pks, heap |-> h]
  ELSE LET item == makePathKeyItem(Head(i).leftop, Head(i).left_sortop)
           r    == make_canonical_pathkey(h, ekl, item)
       IN MergeclausesLoop(r.heap, ekl, Tail(i), lappend(pks, r.list))

\* make_pathkeys_for_mergeclauses(root, mergeclauses, tlist): one canonical
\* sublist per clause, from its left operand and left sortop
make_pathkeys_for_mergeclauses(h, ekl, mergeclauses) ==
  MergeclausesLoop(h, ekl, mergeclauses, NIL)

\* ------------------------------------------------------------ build_index_pathkeys
\* the Oid that stands for no operator and no function
InvalidOid == "InvalidOid"

\* the ordering operators an index column can have
IndexSortops == {"int4lt", "int4gt", "abslt"}

\* get_commutator(opno): int4lt and int4gt commute with each other, abslt has
\* no commutator registered
get_commutator(opno) ==
  CASE opno = "int4lt" -> "int4gt"
    [] opno = "int4gt" -> "int4lt"
    [] OTHER -> InvalidOid

\* the rel the index is on: relid 1, with attribute 1 in its targetlist as a
\* Var, and an expression that is not a Var
IndexedRel ==
  [relids |-> <<1>>,
   targetlist |-> <<[expr |-> "A.X + 1", isVar |-> FALSE, varattno |-> 0],
                    [expr |-> "A.X", isVar |-> TRUE, varattno |-> 1]>>]

\* makeVar(relid, varattno, vartypeid, type_mod, 0) for the attributes of
\* relid 1
makeVar(relid, varattno) == <<"A.X", "A.W">>[varattno]

\* find_indexkey_var(root, rel, varattno): the Var of the targetlist for the
\* attribute, else a new Var
find_indexkey_var(rel, varattno) ==
  IF \E n \in 1..Len(rel.targetlist) :
       rel.targetlist[n].isVar /\ rel.targetlist[n].varattno = varattno
  THEN rel.targetlist[CHOOSE n \in 1..Len(rel.targetlist) :
         /\ rel.targetlist[n].isVar /\ rel.targetlist[n].varattno = varattno
         /\ \A k \in 1..(n - 1) :
              ~(rel.targetlist[k].isVar /\ rel.targetlist[k].varattno = varattno)
       ].expr
  ELSE makeVar(Head(rel.relids), varattno)

\* make_funcclause(funcnode, funcargs): the call of the index function on
\* the arguments
make_funcclause(funcid, funcargs) ==
  CASE funcargs = <<"A.X">> -> "lower(A.X)"
    [] funcargs = <<"A.W">> -> "lower(A.W)"
    [] funcargs = <<"A.X", "A.W">> -> "lower(A.X, A.W)"
    [] funcargs = <<"A.W", "A.X">> -> "lower(A.W, A.X)"
    [] OTHER -> "lower()"

RECURSIVE FuncargsLoop(_, _, _)
\* while (*indexkeys != 0): the Vars of all index columns
FuncargsLoop(rel, indexkeys, funcargs) ==
  IF Head(indexkeys) = 0 THEN funcargs
  ELSE FuncargsLoop(rel, Tail(indexkeys),
                    lappend(funcargs, find_indexkey_var(rel, Head(indexkeys))))

\* ScanDirectionIsBackward(scandir)
ScanDirectionIsBackward(scandir) == scandir = "BackwardScanDirection"

RECURSIVE IndexPathkeysLoop_SkipColumn(_, _, _, _, _, _, _)
\* the loop going on to the next column when an operator has no commutator
IndexPathkeysLoop_SkipColumn(h, ekl, rel, indexkeys, ordering, scandir, retval) ==
  IF Head(indexkeys) = 0 \/ Head(ordering) = InvalidOid
  THEN [list |-> retval, heap |-> h]
  ELSE LET relvar == find_indexkey_var(rel, Head(indexkeys))
           sortop == IF ScanDirectionIsBackward(scandir)
                     THEN get_commutator(Head(ordering))
                     ELSE Head(ordering)
           r == make_canonical_pathkey(h, ekl, makePathKeyItem(relvar, sortop))
       IN IF sortop = InvalidOid
          THEN IndexPathkeysLoop_SkipColumn(h, ekl, rel, Tail(indexkeys),
                                            Tail(ordering), scandir, retval)
          ELSE IndexPathkeysLoop_SkipColumn(r.heap, ekl, rel, Tail(indexkeys),
                                            Tail(ordering), scandir,
                                            lappend(retval, r.list))

RECURSIVE IndexPathkeysLoop(_, _, _, _, _, _, _)
\* the while loop of the non-functional branch: indexkeys and ordering are
\* the rests of the two arrays
IndexPathkeysLoop(h, ekl, rel, indexkeys, ordering, scandir, retval) ==
  IF Head(indexkeys) = 0 \/ Head(ordering) = InvalidOid
  THEN [list |-> retval, heap |-> h]
  ELSE LET relvar == find_indexkey_var(rel, Head(indexkeys))
           sortop == IF ScanDirectionIsBackward(scandir)
                     THEN get_commutator(Head(ordering))
                     ELSE Head(ordering)
           r == make_canonical_pathkey(h, ekl, makePathKeyItem(relvar, sortop))
       IN IF sortop = InvalidOid
          THEN [list |-> retval, heap |-> h]
          ELSE IndexPathkeysLoop(r.heap, ekl, rel, Tail(indexkeys),
                                 Tail(ordering), scandir, lappend(retval, r.list))

\* build_index_pathkeys that keeps the operator of the index for a backward
\* scan
build_index_pathkeys_SameOperator(h, ekl, rel, index, scandir) ==
  IF index.indexkeys = NIL \/ Head(index.indexkeys) = 0
       \/ index.ordering = NIL \/ Head(index.ordering) = InvalidOid
  THEN [list |-> NIL, heap |-> h]
  ELSE IF index.indproc # InvalidOid
  THEN LET funcargs == FuncargsLoop(rel, index.indexkeys, NIL)
           r == make_canonical_pathkey(h, ekl,
                  makePathKeyItem(make_funcclause(index.indproc, funcargs),
                                  Head(index.ordering)))
       IN [list |-> lcons(r.list, NIL), heap |-> r.heap]
  ELSE IndexPathkeysLoop(h, ekl, rel, index.indexkeys, index.ordering,
                         "ForwardScanDirection", NIL)

\* build_index_pathkeys giving a functional index one position per column
build_index_pathkeys_PerColumn(h, ekl, rel, index, scandir) ==
  IF index.indexkeys = NIL \/ Head(index.indexkeys) = 0
       \/ index.ordering = NIL \/ Head(index.ordering) = InvalidOid
  THEN [list |-> NIL, heap |-> h]
  ELSE IndexPathkeysLoop(h, ekl, rel, index.indexkeys,
                         IF index.indproc # InvalidOid
                         THEN [n \in 1..Len(index.indexkeys) |->
                                 IF index.indexkeys[n] = 0 THEN InvalidOid
                                 ELSE Head(index.ordering)]
                         ELSE index.ordering,
                         scandir, NIL)

\* build_index_pathkeys(root, rel, index, scandir): the pathkeys list and the
\* heap after; indexkeys is the array ended by 0 and ordering the array ended
\* by InvalidOid, NIL for a null pointer
build_index_pathkeys(h, ekl, rel, index, scandir) ==
  IF index.indexkeys = NIL \/ Head(index.indexkeys) = 0
       \/ index.ordering = NIL \/ Head(index.ordering) = InvalidOid
  THEN [list |-> NIL, heap |-> h]
  ELSE IF index.indproc # InvalidOid
  THEN LET funcargs == FuncargsLoop(rel, index.indexkeys, NIL)
           sortop == IF ScanDirectionIsBackward(scandir)
                     THEN get_commutator(Head(index.ordering))
                     ELSE Head(index.ordering)
           r == make_canonical_pathkey(h, ekl,
                  makePathKeyItem(make_funcclause(index.indproc, funcargs),
                                  sortop))
       IN IF sortop = InvalidOid THEN [list |-> NIL, heap |-> h]
          ELSE [list |-> lcons(r.list, NIL), heap |-> r.heap]
  ELSE IndexPathkeysLoop(h, ekl, rel, index.indexkeys, index.ordering,
                         scandir, NIL)

\* ------------------------------------------------------------ compare_pathkeys
\* equal() on two sublists: same length, members equal() in list order
equalList(l1, l2) ==
  Len(l1) = Len(l2) /\ \A i \in 1..Len(l1) : equal(l1[i], l2[i])

RECURSIVE compare_pathkeys_Swapped(_, _)
\* compare_pathkeys with the two "longer list" results exchanged
compare_pathkeys_Swapped(k1, k2) ==
  IF k1 # NIL /\ k2 # NIL
  THEN IF ~equalList(Head(k1), Head(k2))
       THEN "PATHKEYS_DIFFERENT"
       ELSE compare_pathkeys_Swapped(Tail(k1), Tail(k2))
  ELSE IF k1 = NIL /\ k2 = NIL THEN "PATHKEYS_EQUAL"
  ELSE IF k1 # NIL THEN "PATHKEYS_BETTER2"
  ELSE "PATHKEYS_BETTER1"

RECURSIVE compare_pathkeys(_, _)
\* compare_pathkeys(keys1, keys2), the sublists given by content
compare_pathkeys(k1, k2) ==
  IF k1 # NIL /\ k2 # NIL
  THEN IF ~equalList(Head(k1), Head(k2))
       THEN "PATHKEYS_DIFFERENT"
       ELSE compare_pathkeys(Tail(k1), Tail(k2))
  ELSE IF k1 = NIL /\ k2 = NIL THEN "PATHKEYS_EQUAL"
  ELSE IF k1 # NIL THEN "PATHKEYS_BETTER1"
  ELSE "PATHKEYS_BETTER2"

\* pathkeys_contained_in answering true when keys1 is the longer list
pathkeys_contained_in_Better1(k1, k2) ==
  LET result == compare_pathkeys(k1, k2)
  IN IF result = "PATHKEYS_EQUAL" \/ result = "PATHKEYS_BETTER1" THEN TRUE
     ELSE FALSE

\* pathkeys_contained_in answering true for PATHKEYS_EQUAL only
pathkeys_contained_in_EqualOnly(k1, k2) ==
  LET result == compare_pathkeys(k1, k2)
  IN IF result = "PATHKEYS_EQUAL" THEN TRUE
     ELSE FALSE

\* pathkeys_contained_in(keys1, keys2): the switch on compare_pathkeys
pathkeys_contained_in(k1, k2) ==
  LET result == compare_pathkeys(k1, k2)
  IN IF result = "PATHKEYS_EQUAL" \/ result = "PATHKEYS_BETTER2" THEN TRUE
     ELSE FALSE

\* ------------------------------------------------------------ cheapest path
\* compare_path_costs(path1, path2, criterion): -1, 0 or +1; the criterion's
\* cost decides, the other cost breaks a tie
compare_path_costs(path1, path2, criterion) ==
  IF criterion = "STARTUP_COST"
  THEN IF path1.startup_cost < path2.startup_cost THEN -1
       ELSE IF path1.startup_cost > path2.startup_cost THEN 1
       ELSE IF path1.total_cost < path2.total_cost THEN -1
       ELSE IF path1.total_cost > path2.total_cost THEN 1
       ELSE 0
  ELSE IF path1.total_cost < path2.total_cost THEN -1
       ELSE IF path1.total_cost > path2.total_cost THEN 1
       ELSE IF path1.startup_cost < path2.startup_cost THEN -1
       ELSE IF path1.startup_cost > path2.startup_cost THEN 1
       ELSE 0

\* fractions are counted in units of 1/FractionUnits
FractionUnits == 2

\* FractionUnits times the cost of fetching the fraction of the tuples:
\* startup_cost + fraction * (total_cost - startup_cost)
FractionalCost(path, fraction) ==
  FractionUnits * path.startup_cost
    + fraction * (path.total_cost - path.startup_cost)

\* compare_fractional_path_costs(path1, path2, fraction)
compare_fractional_path_costs(path1, path2, fraction) ==
  IF fraction <= 0 \/ fraction >= FractionUnits
  THEN compare_path_costs(path1, path2, "TOTAL_COST")
  ELSE IF FractionalCost(path1, fraction) < FractionalCost(path2, fraction) THEN -1
       ELSE IF FractionalCost(path1, fraction) > FractionalCost(path2, fraction) THEN 1
       ELSE 0

RECURSIVE CheapestLoopCostOnly(_, _, _, _, _)
\* the loop taking every cheaper path, whatever its pathkeys
CheapestLoopCostOnly(ps, pks, cost_criterion, i, matched) ==
  IF i > Len(ps) THEN matched
  ELSE IF matched # 0 /\ compare_path_costs(ps[matched], ps[i], cost_criterion) <= 0
       THEN CheapestLoopCostOnly(ps, pks, cost_criterion, i + 1, matched)
       ELSE CheapestLoopCostOnly(ps, pks, cost_criterion, i + 1, i)

RECURSIVE CheapestLoop_ReplaceOnTie(_, _, _, _, _)
\* the loop keeping matched_path only when it costs strictly less
CheapestLoop_ReplaceOnTie(ps, pks, cost_criterion, i, matched) ==
  IF i > Len(ps) THEN matched
  ELSE IF matched # 0 /\ compare_path_costs(ps[matched], ps[i], cost_criterion) < 0
       THEN CheapestLoop_ReplaceOnTie(ps, pks, cost_criterion, i + 1, matched)
       ELSE IF pathkeys_contained_in(pks, ps[i].pathkeys)
            THEN CheapestLoop_ReplaceOnTie(ps, pks, cost_criterion, i + 1, i)
            ELSE CheapestLoop_ReplaceOnTie(ps, pks, cost_criterion, i + 1, matched)

RECURSIVE CheapestLoop(_, _, _, _, _)
\* foreach(i, paths) of get_cheapest_path_for_pathkeys; matched is the
\* position of matched_path in paths, 0 while it is NULL
CheapestLoop(ps, pks, cost_criterion, i, matched) ==
  IF i > Len(ps) THEN matched
  ELSE IF matched # 0 /\ compare_path_costs(ps[matched], ps[i], cost_criterion) <= 0
       THEN CheapestLoop(ps, pks, cost_criterion, i + 1, matched)
       ELSE IF pathkeys_contained_in(pks, ps[i].pathkeys)
            THEN CheapestLoop(ps, pks, cost_criterion, i + 1, i)
            ELSE CheapestLoop(ps, pks, cost_criterion, i + 1, matched)

get_cheapest_path_for_pathkeys(ps, pks, cost_criterion) ==
  CheapestLoop(ps, pks, cost_criterion, 1, 0)

RECURSIVE CheapestFractionalLoop(_, _, _, _, _)
\* foreach(i, paths) of get_cheapest_fractional_path_for_pathkeys
CheapestFractionalLoop(ps, pks, fraction, i, matched) ==
  IF i > Len(ps) THEN matched
  ELSE IF matched # 0
            /\ compare_fractional_path_costs(ps[matched], ps[i], fraction) <= 0
       THEN CheapestFractionalLoop(ps, pks, fraction, i + 1, matched)
       ELSE IF pathkeys_contained_in(pks, ps[i].pathkeys)
            THEN CheapestFractionalLoop(ps, pks, fraction, i + 1, i)
            ELSE CheapestFractionalLoop(ps, pks, fraction, i + 1, matched)

get_cheapest_fractional_path_for_pathkeys(ps, pks, fraction) ==
  CheapestFractionalLoop(ps, pks, fraction, 1, 0)

\* ------------------------------------------------------------ relation nodes
\* the rangetable indexes of the query
RelIds == {1, 2, 3}

\* the join clauses of the query, in WHERE-clause order.  relids are the
\* relations a clause mentions, vars the Vars it uses; a mergejoinable clause
\* equates its left and right Var
JoinClauses ==
  << [clause |-> "r1.x = r2.x", relids |-> <<1, 2>>, mergejoinable |-> TRUE,
      left |-> "r1.x", right |-> "r2.x",
      vars |-> <<[relid |-> 1, expr |-> "r1.x"], [relid |-> 2, expr |-> "r2.x"]>>],
     [clause |-> "r2.x = r1.x", relids |-> <<2, 1>>, mergejoinable |-> TRUE,
      left |-> "r2.x", right |-> "r1.x",
      vars |-> <<[relid |-> 2, expr |-> "r2.x"], [relid |-> 1, expr |-> "r1.x"]>>],
     [clause |-> "r1.x = r3.x", relids |-> <<1, 3>>, mergejoinable |-> TRUE,
      left |-> "r1.x", right |-> "r3.x",
      vars |-> <<[relid |-> 1, expr |-> "r1.x"], [relid |-> 3, expr |-> "r3.x"]>>],
     [clause |-> "r1.y + r2.y < r3.y", relids |-> <<1, 2, 3>>, mergejoinable |-> FALSE,
      left |-> "r1.y + r2.y", right |-> "r3.y",
      vars |-> <<[relid |-> 1, expr |-> "r1.y"], [relid |-> 2, expr |-> "r2.y"],
                 [relid |-> 3, expr |-> "r3.y"]>>] >>

\* integer-list set operations
intMember(i, list) == \E n \in 1..Len(list) : list[n] = i

sameseti(l1, l2) ==
  /\ \A n \in 1..Len(l1) : intMember(l1[n], l2)
  /\ \A n \in 1..Len(l2) : intMember(l2[n], l1)

is_subseti(l1, l2) == \A n \in 1..Len(l1) : intMember(l1[n], l2)

set_differencei(l1, l2) == SelectSeq(l1, LAMBDA i : ~intMember(i, l2))

listCopy(list) == list

nconc(l1, l2) == l1 \o l2

\* equal() on two RestrictInfo nodes: the same clause
memberClause(c, list) == \E n \in 1..Len(list) : list[n] = c

RECURSIVE set_union(_, _)
\* set_union(l1, l2): a copy of l1 plus the members of l2 not yet present
set_union(l1, l2) ==
  IF l2 = NIL THEN l1
  ELSE set_union(IF memberClause(Head(l2), l1) THEN l1 ELSE lappend(l1, Head(l2)),
                 Tail(l2))

\* the rangetable of the query: the rtekind of each entry; the entries of
\* RelIds are the ones a base rel can be made for
rtable == <<"RTE_RELATION", "RTE_SUBQUERY", "RTE_FUNCTION", "RTE_JOIN">>

\* the switch of make_base_rel does not end in elog(ERROR) for this entry
SupportedRTEKind(relid) ==
  rtable[relid] \in {"RTE_RELATION", "RTE_SUBQUERY", "RTE_FUNCTION"}

\* make_base_rel(root, relid): the fields the planner's lists and joins use,
\* for an entry of a supported kind
make_base_rel(relid) ==
  [reloptkind |-> "RELOPT_BASEREL", relids |-> <<relid>>, rows |-> 0,
   width |-> 0, targetlist |-> NIL, rtekind |-> rtable[relid],
   joininfo |-> NIL]

\* some node of the list (addresses into nodes) is the rel of relid
InRelList(nodes, list, relid) ==
  \E n \in 1..Len(list) : Head(nodes[list[n]].relids) = relid

\* the first node of the list for relid, 0 when there is none
FindInRelList(nodes, list, relid) ==
  IF InRelList(nodes, list, relid)
  THEN list[CHOOSE n \in 1..Len(list) :
              /\ Head(nodes[list[n]].relids) = relid
              /\ \A k \in 1..(n - 1) : Head(nodes[list[k]].relids) # relid]
  ELSE 0

\* create_tl_element(get_expr(xtl), resdomno)
create_tl_element(expr, resdomno) == [expr |-> expr, resno |-> resdomno]

\* new_join_tlist starting at the second entry of the input tlist
new_join_tlist_SkipFirst(tlist, first_resdomno) ==
  [i \in 1..(Len(tlist) - 1) |->
     create_tl_element(tlist[i + 1].expr, first_resdomno - 1 + i)]

\* the entries copied with the resnos they have in the input tlist
new_join_tlist_KeepResno(tlist, first_resdomno) ==
  [i \in 1..Len(tlist) |-> create_tl_element(tlist[i].expr, tlist[i].resno)]

\* new_join_tlist(tlist, first_resdomno)
new_join_tlist(tlist, first_resdomno) ==
  [i \in 1..Len(tlist) |->
     create_tl_element(tlist[i].expr, first_resdomno - 1 + i)]

\* find_join_rel comparing the relids lists element by element
find_join_rel_SameOrder(nodes, jrl, relids) ==
  IF \E n \in 1..Len(jrl) : nodes[jrl[n]].relids = relids
  THEN jrl[CHOOSE n \in 1..Len(jrl) :
             /\ nodes[jrl[n]].relids = relids
             /\ \A k \in 1..(n - 1) : nodes[jrl[k]].relids # relids]
  ELSE 0

\* find_join_rel(root, relids): the first node of join_rel_list whose relids
\* are the same set, 0 for NULL
find_join_rel(nodes, jrl, relids) ==
  IF \E n \in 1..Len(jrl) : sameseti(nodes[jrl[n]].relids, relids)
  THEN jrl[CHOOSE n \in 1..Len(jrl) :
             /\ sameseti(nodes[jrl[n]].relids, relids)
             /\ \A k \in 1..(n - 1) : ~sameseti(nodes[jrl[k]].relids, relids)]
  ELSE 0

RECURSIVE subbuild_joinrel_restrictlist_Overlap(_, _)
\* the restrictlist taking every JoinInfo that awaits some rel of the joinrel
subbuild_joinrel_restrictlist_Overlap(joinrel, joininfo_list) ==
  IF joininfo_list = NIL THEN NIL
  ELSE LET joininfo == Head(joininfo_list)
       IN nconc(IF \E n \in 1..Len(joininfo.unjoined_relids) :
                     intMember(joininfo.unjoined_relids[n], joinrel.relids)
                THEN listCopy(joininfo.jinfo_restrictinfo)
                ELSE NIL,
                subbuild_joinrel_restrictlist_Overlap(joinrel, Tail(joininfo_list)))

RECURSIVE subbuild_joinrel_restrictlist_All(_, _)
\* the restrictlist taking the clauses of every JoinInfo
subbuild_joinrel_restrictlist_All(joinrel, joininfo_list) ==
  IF joininfo_list = NIL THEN NIL
  ELSE nconc(listCopy(Head(joininfo_list).jinfo_restrictinfo),
             subbuild_joinrel_restrictlist_All(joinrel, Tail(joininfo_list)))

RECURSIVE subbuild_joinrel_restrictlist_SameSet(_, _)
\* the restrictlist taking the JoinInfos that await exactly the joinrel's rels
subbuild_joinrel_restrictlist_SameSet(joinrel, joininfo_list) ==
  IF joininfo_list = NIL THEN NIL
  ELSE LET joininfo == Head(joininfo_list)
       IN nconc(IF sameseti(joininfo.unjoined_relids, joinrel.relids)
                THEN listCopy(joininfo.jinfo_restrictinfo)
                ELSE NIL,
                subbuild_joinrel_restrictlist_SameSet(joinrel, Tail(joininfo_list)))

RECURSIVE subbuild_joinrel_restrictlist(_, _)
\* subbuild_joinrel_restrictlist(joinrel, joininfo_list): the clauses of the
\* JoinInfos whose unjoined_relids are all in the joinrel, in list order
subbuild_joinrel_restrictlist(joinrel, joininfo_list) ==
  IF joininfo_list = NIL THEN NIL
  ELSE LET joininfo == Head(joininfo_list)
       IN nconc(IF is_subseti(joininfo.unjoined_relids, joinrel.relids)
                THEN listCopy(joininfo.jinfo_restrictinfo)
                ELSE NIL,
                subbuild_joinrel_restrictlist(joinrel, Tail(joininfo_list)))

\* rlist of build_joinrel_restrictlist: the clauses that syntactically belong
\* at this level, outer_rel's before inner_rel's
CollectRestrictlist(joinrel, outer_rel, inner_rel) ==
  nconc(subbuild_joinrel_restrictlist(joinrel, outer_rel.joininfo),
        subbuild_joinrel_restrictlist(joinrel, inner_rel.joininfo))

\* the Vars the mergejoinable clauses of a list make equal to v
ImpliedEqual(v, list) ==
  Reach({v}, {{list[n].left, list[n].right} :
                n \in {k \in 1..Len(list) : list[k].mergejoinable}})

RECURSIVE RemoveRedundantLoop(_, _)
RemoveRedundantLoop(restrictinfo_list, result) ==
  IF restrictinfo_list = NIL THEN result
  ELSE LET rinfo == Head(restrictinfo_list)
       IN IF memberClause(rinfo, result)
          THEN RemoveRedundantLoop(Tail(restrictinfo_list), result)
          ELSE IF rinfo.mergejoinable /\ rinfo.right \in ImpliedEqual(rinfo.left, result)
               THEN RemoveRedundantLoop(Tail(restrictinfo_list), result)
               ELSE RemoveRedundantLoop(Tail(restrictinfo_list),
                                        lappend(result, rinfo))

\* remove_redundant_join_clauses(root, restrictinfo_list, jointype): drops
\* duplicates and the mergejoinable clauses the clauses kept so far imply
remove_redundant_join_clauses(restrictinfo_list) ==
  RemoveRedundantLoop(restrictinfo_list, NIL)

\* build_joinrel_restrictlist(root, joinrel, outer_rel, inner_rel, jointype)
build_joinrel_restrictlist(joinrel, outer_rel, inner_rel) ==
  remove_redundant_join_clauses(CollectRestrictlist(joinrel, outer_rel, inner_rel))

\* find_joininfo_node(this_rel, join_relids): the position in this_rel's
\* joininfo of the JoinInfo for the same set of relids, 0 for NULL
find_joininfo_node(joininfo_list, join_relids) ==
  IF \E n \in 1..Len(joininfo_list) :
       sameseti(joininfo_list[n].unjoined_relids, join_relids)
  THEN CHOOSE n \in 1..Len(joininfo_list) :
         /\ sameseti(joininfo_list[n].unjoined_relids, join_relids)
         /\ \A k \in 1..(n - 1) :
              ~sameseti(joininfo_list[k].unjoined_relids, join_relids)
  ELSE 0

\* make_joininfo_node(this_rel, join_relids): this_rel's joininfo with a
\* JoinInfo for join_relids, a new empty one put at the front if none is found
make_joininfo_node(joininfo_list, join_relids) ==
  IF find_joininfo_node(joininfo_list, join_relids) # 0 THEN joininfo_list
  ELSE lcons([unjoined_relids |-> join_relids, jinfo_restrictinfo |-> NIL],
             joininfo_list)

\* the JoinInfo for join_relids gets jinfo_restrictinfo = clauses
SetJoinInfoClauses(joininfo_list, join_relids, clauses) ==
  LET n == find_joininfo_node(joininfo_list, join_relids)
  IN [joininfo_list EXCEPT ![n].jinfo_restrictinfo = clauses]

\* the clauses of the JoinInfo for join_relids
JoinInfoClauses(joininfo_list, join_relids) ==
  joininfo_list[find_joininfo_node(joininfo_list, join_relids)].jinfo_restrictinfo

RECURSIVE subbuild_joinrel_joinlist_KeepKey(_, _)
\* the joinlist keyed by the input unjoined_relids, nothing subtracted
subbuild_joinrel_joinlist_KeepKey(joinrel, joininfo_list) ==
  IF joininfo_list = NIL THEN joinrel
  ELSE LET joininfo == Head(joininfo_list)
           new_unjoined_relids ==
             set_differencei(joininfo.unjoined_relids, joinrel.relids)
           made == make_joininfo_node(joinrel.joininfo, joininfo.unjoined_relids)
       IN subbuild_joinrel_joinlist_KeepKey(
            IF new_unjoined_relids = NIL THEN joinrel
            ELSE [joinrel EXCEPT !.joininfo =
                    SetJoinInfoClauses(made, joininfo.unjoined_relids,
                      set_union(JoinInfoClauses(made, joininfo.unjoined_relids),
                                joininfo.jinfo_restrictinfo))],
            Tail(joininfo_list))

RECURSIVE subbuild_joinrel_joinlist_KeepGraduated(_, _)
\* the joinlist that also carries up the JoinInfos with nothing left to await
subbuild_joinrel_joinlist_KeepGraduated(joinrel, joininfo_list) ==
  IF joininfo_list = NIL THEN joinrel
  ELSE LET joininfo == Head(joininfo_list)
           new_unjoined_relids ==
             set_differencei(joininfo.unjoined_relids, joinrel.relids)
           made == make_joininfo_node(joinrel.joininfo, new_unjoined_relids)
       IN subbuild_joinrel_joinlist_KeepGraduated(
            [joinrel EXCEPT !.joininfo =
               SetJoinInfoClauses(made, new_unjoined_relids,
                 set_union(JoinInfoClauses(made, new_unjoined_relids),
                           joininfo.jinfo_restrictinfo))],
            Tail(joininfo_list))

RECURSIVE subbuild_joinrel_joinlist(_, _)
\* subbuild_joinrel_joinlist(joinrel, joininfo_list): the joinrel after the
\* clauses of each JoinInfo that still awaits rels outside the joinrel are
\* added to the joinrel's JoinInfo for those rels
subbuild_joinrel_joinlist(joinrel, joininfo_list) ==
  IF joininfo_list = NIL THEN joinrel
  ELSE LET joininfo == Head(joininfo_list)
           new_unjoined_relids ==
             set_differencei(joininfo.unjoined_relids, joinrel.relids)
           made == make_joininfo_node(joinrel.joininfo, new_unjoined_relids)
       IN subbuild_joinrel_joinlist(
            IF new_unjoined_relids = NIL THEN joinrel
            ELSE [joinrel EXCEPT !.joininfo =
                    SetJoinInfoClauses(made, new_unjoined_relids,
                      set_union(JoinInfoClauses(made, new_unjoined_relids),
                                joininfo.jinfo_restrictinfo))],
            Tail(joininfo_list))

\* the joinlist built from the JoinInfos of outer_rel alone
build_joinrel_joinlist_OuterOnly(joinrel, outer_rel, inner_rel) ==
  subbuild_joinrel_joinlist(joinrel, outer_rel.joininfo)

\* the joinrel takes over the JoinInfos of its two inputs as they are
build_joinrel_joinlist_Inherit(joinrel, outer_rel, inner_rel) ==
  [joinrel EXCEPT !.joininfo = nconc(listCopy(outer_rel.joininfo),
                                     listCopy(inner_rel.joininfo))]

\* build_joinrel_joinlist(joinrel, outer_rel, inner_rel)
build_joinrel_joinlist(joinrel, outer_rel, inner_rel) ==
  subbuild_joinrel_joinlist(
    subbuild_joinrel_joinlist(joinrel, outer_rel.joininfo), inner_rel.joininfo)

\* set_joinrel_size_estimates(root, rel, outer_rel, inner_rel, jointype,
\* restrictlist): rows and width are set from the arguments; the stand-in
\* depends on the pair joined and on the restrictlist
set_joinrel_size_estimates(rel, outer_rel, inner_rel, restrictlist) ==
  [rel EXCEPT !.rows = 10 * Len(outer_rel.relids) + Len(restrictlist) + 1,
              !.width = Len(rel.targetlist)]

\* the RelOptInfo build_join_rel makes when no joinrel exists yet
NewJoinRel(joinrelids, outer_rel, inner_rel) ==
  LET new_outer_tlist == new_join_tlist(outer_rel.targetlist, 1)
      new_inner_tlist == new_join_tlist(inner_rel.targetlist,
                                        Len(new_outer_tlist) + 1)
      joinrel == [reloptkind |-> "RELOPT_JOINREL",
                  relids |-> listCopy(joinrelids), rows |-> 0, width |-> 0,
                  targetlist |-> nconc(new_outer_tlist, new_inner_tlist),
                  rtekind |-> "RTE_JOIN", joininfo |-> NIL]
      restrictlist == build_joinrel_restrictlist(joinrel, outer_rel, inner_rel)
  IN set_joinrel_size_estimates(
       build_joinrel_joinlist(joinrel, outer_rel, inner_rel),
       outer_rel, inner_rel, restrictlist)

\* build_join_rel making a joinrel on every call
build_join_rel_AlwaysNew(nodes, jrl, est, joinrelids, outer, inner) ==
  LET new == Len(nodes) + 1
  IN [relnodes |-> Append(nodes, NewJoinRel(joinrelids, nodes[outer], nodes[inner])),
      join_rel_list |-> lcons(new, jrl),
      estimated |-> lappend(est, new),
      joinrel |-> new,
      restrictlist |->
        build_joinrel_restrictlist([relids |-> joinrelids],
                                   nodes[outer], nodes[inner])]

\* build_join_rel redoing the joinlist and the size estimate of a joinrel found
build_join_rel_Rebuild(nodes, jrl, est, joinrelids, outer, inner) ==
  LET found == find_join_rel(nodes, jrl, joinrelids)
      new == Len(nodes) + 1
  IN IF found # 0
     THEN LET restrictlist ==
                build_joinrel_restrictlist(nodes[found], nodes[outer], nodes[inner])
          IN [relnodes |->
                [nodes EXCEPT ![found] =
                   set_joinrel_size_estimates(
                     build_joinrel_joinlist(nodes[found], nodes[outer], nodes[inner]),
                     nodes[outer], nodes[inner], restrictlist)],
              join_rel_list |-> jrl,
              estimated |-> lappend(est, found),
              joinrel |-> found,
              restrictlist |-> restrictlist]
     ELSE [relnodes |-> Append(nodes, NewJoinRel(joinrelids, nodes[outer], nodes[inner])),
           join_rel_list |-> lcons(new, jrl),
           estimated |-> lappend(est, new),
           joinrel |-> new,
           restrictlist |->
             build_joinrel_restrictlist([relids |-> joinrelids],
                                        nodes[outer], nodes[inner])]

\* build_join_rel(root, joinrelids, outer_rel, inner_rel, jointype,
\* restrictlist_ptr): the root's nodes and join_rel_list after the call, the
\* joinrel returned and *restrictlist_ptr; est logs the joinrels given to
\* set_joinrel_size_estimates
build_join_rel(nodes, jrl, est, joinrelids, outer, inner) ==
  LET found == find_join_rel(nodes, jrl, joinrelids)
      new == Len(nodes) + 1
  IN IF found # 0
     THEN [relnodes |-> nodes,
           join_rel_list |-> jrl,
           estimated |-> est,
           joinrel |-> found,
           restrictlist |->
             build_joinrel_restrictlist(nodes[found], nodes[outer], nodes[inner])]
     ELSE [relnodes |-> Append(nodes, NewJoinRel(joinrelids, nodes[outer], nodes[inner])),
           join_rel_list |-> lcons(new, jrl),
           estimated |-> lappend(est, new),
           joinrel |-> new,
           restrictlist |->
             build_joinrel_restrictlist([relids |-> joinrelids],
                                        nodes[outer], nodes[inner])]

\* find_base_rel that looks in base_rel_list only
find_base_rel_BaseListOnly(nodes, brl, orl, relid) ==
  FindInRelList(nodes, brl, relid)

\* find_base_rel(root, relid): the node of base_rel_list, else of
\* other_rel_list, for relid; 0 when elog(ERROR) is raised instead
find_base_rel(nodes, brl, orl, relid) ==
  IF InRelList(nodes, brl, relid) THEN FindInRelList(nodes, brl, relid)
  ELSE FindInRelList(nodes, orl, relid)

\* the relids of a clause other than cur_relid, in the clause's order
OtherRelids(clause, cur_relid) ==
  SelectSeq(clause.relids, LAMBDA r : r # cur_relid)

RECURSIVE add_join_info_to_rels(_, _, _, _, _)
\* add_join_info_to_rels(root, restrictinfo, join_relids): the clause is
\* appended, on each rel it mentions, to the JoinInfo for the other rels
add_join_info_to_rels(nodes, brl, orl, clause, join_relids) ==
  IF join_relids = NIL THEN nodes
  ELSE LET cur_relid == Head(join_relids)
           unjoined_relids == OtherRelids(clause, cur_relid)
           rel == find_base_rel(nodes, brl, orl, cur_relid)
           made == make_joininfo_node(nodes[rel].joininfo, unjoined_relids)
       IN add_join_info_to_rels(
            [nodes EXCEPT ![rel].joininfo =
               SetJoinInfoClauses(made, unjoined_relids,
                 lappend(JoinInfoClauses(made, unjoined_relids), clause))],
            brl, orl, clause, Tail(join_relids))

RECURSIVE add_vars_to_targetlist(_, _, _, _)
\* add_vars_to_targetlist(root, vars): each Var not yet in the targetlist of
\* its rel is appended to it with the next resno
add_vars_to_targetlist(nodes, brl, orl, vars_) ==
  IF vars_ = NIL THEN nodes
  ELSE LET var == Head(vars_)
           rel == find_base_rel(nodes, brl, orl, var.relid)
           tlist == nodes[rel].targetlist
       IN add_vars_to_targetlist(
            IF \E n \in 1..Len(tlist) : tlist[n].expr = var.expr THEN nodes
            ELSE [nodes EXCEPT ![rel].targetlist =
                    lappend(tlist, create_tl_element(var.expr, Len(tlist) + 1))],
            brl, orl, Tail(vars_))

\* ------------------------------------------------------------ state machine
\* the sublists of a pathkeys list, by content
Deref(h, pks) == [i \in 1..Len(pks) |-> h[pks[i]]]

\* the cells some root still points to
Collect(h, roots) == [a \in (DOMAIN h) \cap roots |-> h[a]]

Init ==
  /\ equi_key_list = NIL
  /\ heap = << >>
  /\ scanning = TRUE
  /\ recorded = {}
  /\ call = [op |-> "none", args |-> << >>]
  /\ pathkeys = NIL
  /\ keys1 = NIL
  /\ keys2 = NIL
  /\ comparison = "none"
  /\ contained = NIL
  /\ paths = NIL
  /\ required = NIL
  /\ matched_path = NIL
  /\ base_rel_list = NIL
  /\ other_rel_list = NIL
  /\ join_rel_list = NIL
  /\ relnodes = << >>
  /\ quals = NIL
  /\ estimated = NIL
  /\ portals = << >>

\* one call of add_equijoined_keys while the WHERE clause is scanned
AddEquijoinedKeys(restrictinfo) ==
  /\ scanning
  /\ LET r == add_equijoined_keys(heap, equi_key_list, restrictinfo)
     IN
     /\ equi_key_list' = r.equi_key_list
     /\ heap' = r.heap
     /\ call' = [op |-> "add_equijoined_keys", args |-> <<restrictinfo>>]
     /\ UNCHANGED <<portals, scanning, pathkeys, cmpvars, pathvars, relvars>>

\* a clause of the query is scanned, and logged in the history
ScanClauseLogged ==
  /\ scanning
  /\ Cardinality(recorded) < MaxAdds
  /\ \E restrictinfo \in RestrictInfos :
       /\ AddEquijoinedKeys(restrictinfo)
       /\ recorded' = recorded \cup
            {{makePathKeyItem(restrictinfo.leftop, restrictinfo.left_sortop),
              makePathKeyItem(restrictinfo.rightop, restrictinfo.right_sortop)}}

\* a clause of the query is scanned
ScanClause ==
  /\ scanning
  /\ \E restrictinfo \in PlanRestrictInfos :
       /\ AddEquijoinedKeys(restrictinfo)
       /\ UNCHANGED recorded

\* the scan of the WHERE clause is complete: pathkeys may be made canonical
EndScan ==
  /\ scanning
  /\ scanning' = FALSE
  /\ call' = [op |-> "scan_done", args |-> << >>]
  /\ UNCHANGED <<portals, equi_key_list, heap, recorded, pathkeys, cmpvars, pathvars, relvars>>

\* the planner builds the pathkeys of an ORDER BY / GROUP BY list
MakePathkeysForSortclauses ==
  /\ ~scanning
  /\ call.op = "scan_done"
  /\ \E sortclauses \in SeqsUpTo(SortClauses, MaxPathLen) :
       LET r == make_pathkeys_for_sortclauses(heap, sortclauses)
       IN /\ pathkeys' = r.list
          /\ heap' = Collect(r.heap, Range(equi_key_list) \cup Range(r.list))
          /\ call' = [op |-> "make_pathkeys_for_sortclauses",
                      args |-> <<sortclauses>>]
  /\ UNCHANGED <<portals, equi_key_list, scanning, recorded, cmpvars, pathvars, relvars>>

\* the planner replaces its pathkeys by canonicalize_pathkeys(root, pathkeys)
CanonicalizePathkeys ==
  /\ ~scanning
  /\ call.op \in {"make_pathkeys_for_sortclauses", "canonicalize_pathkeys"}
  /\ LET r == canonicalize_pathkeys(heap, equi_key_list, pathkeys)
     IN
     /\ pathkeys' = r.list
     /\ heap' = Collect(r.heap, Range(equi_key_list) \cup Range(r.list))
     /\ call' = [op |-> "canonicalize_pathkeys", args |-> <<Deref(heap, pathkeys)>>]
     /\ UNCHANGED <<portals, equi_key_list, scanning, recorded, cmpvars, pathvars, relvars>>

\* two keys are members of one set of the registry
SameSet(h, ekl, k1, k2) ==
  \E i \in 1..Len(ekl) : member(k1, h[ekl[i]]) /\ member(k2, h[ekl[i]])

\* the mergejoinable clauses of the query: those the scan has seen, whose two
\* sides are the same key or members of one equivalence set
ScannedClauses ==
  {ri \in PlanRestrictInfos :
     LET item1 == makePathKeyItem(ri.leftop, ri.left_sortop)
         item2 == makePathKeyItem(ri.rightop, ri.right_sortop)
     IN equal(item1, item2) \/ SameSet(heap, equi_key_list, item1, item2)}

\* the planner builds the pathkeys a mergejoin on the given clauses needs
MakePathkeysForMergeclauses ==
  /\ ~scanning
  /\ call.op = "scan_done"
  /\ \E mergeclauses \in SeqsUpTo(ScannedClauses, MaxPathLen) :
       LET r == make_pathkeys_for_mergeclauses(heap, equi_key_list, mergeclauses)
       IN /\ pathkeys' = r.list
          /\ heap' = Collect(r.heap, Range(equi_key_list) \cup Range(r.list))
          /\ call' = [op |-> "make_pathkeys_for_mergeclauses",
                      args |-> <<mergeclauses>>]
  /\ UNCHANGED <<portals, equi_key_list, scanning, recorded, cmpvars, pathvars, relvars>>

NextReg == ScanClauseLogged

SpecReg == Init /\ [][NextReg]_vars

Next ==
  \/ ScanClause
  \/ EndScan
  \/ MakePathkeysForSortclauses
  \/ MakePathkeysForMergeclauses
  \/ CanonicalizePathkeys

Spec == Init /\ [][Next]_vars

\* ------------------------------------------------------------ mergeclause specification
\* the mergejoinable clauses of the query: a plain equijoin, one on the
\* int8 operators, X = X, X = X with two sortops, and a cross-type clause
MergeRestrictInfos ==
  {[leftop |-> "A.X", rightop |-> "B.Y",
    left_sortop |-> "int4lt", right_sortop |-> "int4lt"],
   [leftop |-> "B.Y", rightop |-> "A.X",
    left_sortop |-> "int8lt", right_sortop |-> "int8lt"],
   [leftop |-> "A.X", rightop |-> "A.X",
    left_sortop |-> "int4lt", right_sortop |-> "int4lt"],
   [leftop |-> "A.X", rightop |-> "A.X",
    left_sortop |-> "int4lt", right_sortop |-> "int8lt"],
   [leftop |-> "B.Y", rightop |-> "A.X",
    left_sortop |-> "int4lt", right_sortop |-> "int8lt"]}

\* the clauses given to add_equijoined_keys so far
RecordedClauses ==
  {ri \in MergeRestrictInfos :
     {makePathKeyItem(ri.leftop, ri.left_sortop),
      makePathKeyItem(ri.rightop, ri.right_sortop)} \in recorded}

\* a clause of the query not scanned yet is scanned, and logged
ScanMergeClause ==
  /\ scanning
  /\ \E restrictinfo \in MergeRestrictInfos \ RecordedClauses :
       /\ AddEquijoinedKeys(restrictinfo)
       /\ recorded' = recorded \cup
            {{makePathKeyItem(restrictinfo.leftop, restrictinfo.left_sortop),
              makePathKeyItem(restrictinfo.rightop, restrictinfo.right_sortop)}}

\* the planner builds the pathkeys a mergejoin on clauses of the query needs
MakePathkeysForRecordedClauses ==
  /\ ~scanning
  /\ call.op = "scan_done"
  /\ \E mergeclauses \in SeqsUpTo(RecordedClauses, MaxPathLen) :
       LET r == make_pathkeys_for_mergeclauses(heap, equi_key_list, mergeclauses)
       IN /\ pathkeys' = r.list
          /\ heap' = r.heap
          /\ call' = [op |-> "make_pathkeys_for_mergeclauses",
                      args |-> <<mergeclauses>>]
  /\ UNCHANGED <<portals, equi_key_list, scanning, recorded, cmpvars, pathvars, relvars>>

NextMerge == ScanMergeClause \/ EndScan \/ MakePathkeysForRecordedClauses

SpecMerge == Init /\ [][NextMerge]_vars

\* ------------------------------------------------------------ join pathkeys specification
\* the key returned only at the positions that have a key in the join rel's
\* targetlist
build_join_pathkeys_InTlist(h, outer_pathkeys, join_rel_tlist, ekl) ==
  SelectSeq(outer_pathkeys,
            LAMBDA a : \E k \in 1..Len(h[a]) :
                         h[a][k].key \in Range(join_rel_tlist))

\* build_join_pathkeys(outer_pathkeys, join_rel_tlist, equi_key_list); h is
\* the memory the lists are in, which the routine does not touch
build_join_pathkeys(h, outer_pathkeys, join_rel_tlist, ekl) == outer_pathkeys

\* the targetlists of the join rel, by the expressions they hold
JoinRelTlists == {NIL, <<"A.X">>, <<"A.X", "B.Y">>}

\* the planner labels a join path with build_join_pathkeys of the pathkeys it
\* holds for the outer path
BuildJoinPathkeys ==
  /\ ~scanning
  /\ call.op \in {"make_pathkeys_for_sortclauses", "canonicalize_pathkeys"}
  /\ \E join_rel_tlist \in JoinRelTlists :
       /\ pathkeys' = build_join_pathkeys(heap, pathkeys, join_rel_tlist,
                                          equi_key_list)
       /\ call' = [op |-> "build_join_pathkeys",
                   args |-> <<pathkeys, join_rel_tlist>>]
  /\ UNCHANGED <<portals, equi_key_list, heap, scanning, recorded, cmpvars, pathvars,
                 relvars>>

\* the clauses of the query are recorded, then the planner makes the pathkeys
\* of a sort order, makes them canonical or not, and labels a join path
NextJoinKeys ==
  \/ ScanMergeClause
  \/ EndScan
  \/ MakePathkeysForSortclauses
  \/ CanonicalizePathkeys
  \/ BuildJoinPathkeys

SpecJoinKeys == Init /\ [][NextJoinKeys]_vars

\* ------------------------------------------------------------ mergeclauses for pathkeys
\* the pathkey sublists find_mergeclauses_for_pathkeys is given: one-key
\* sublists, among them two that differ in the sortop only, and two-key ones
FindSublists ==
  {<<makePathKeyItem("A.X", "int4lt")>>, <<makePathKeyItem("A.X", "int8lt")>>,
   <<makePathKeyItem("C.Z", "int4lt")>>,
   <<makePathKeyItem("A.X", "int4lt"), makePathKeyItem("B.Y", "int4lt")>>,
   <<makePathKeyItem("B.Y", "int4lt"), makePathKeyItem("C.Z", "int4lt")>>}

\* the mergejoinable clauses of the join being formed
FindRestrictInfos ==
  {[leftop |-> "A.X", rightop |-> "C.Z",
    left_sortop |-> "int4lt", right_sortop |-> "int4lt"],
   [leftop |-> "A.X", rightop |-> "B.Y",
    left_sortop |-> "int4lt", right_sortop |-> "int4lt"],
   [leftop |-> "B.Y", rightop |-> "A.X",
    left_sortop |-> "int4lt", right_sortop |-> "int8lt"],
   [leftop |-> "C.Z", rightop |-> "B.Y",
    left_sortop |-> "int8lt", right_sortop |-> "int4lt"]}

\* the test comparing the key with the operands and not the sortops
KeyMatchesClause_AnySortop(keyitem, restrictinfo) ==
  \/ keyitem.key = restrictinfo.leftop
  \/ keyitem.key = restrictinfo.rightop

\* the test of the innermost loop but for the member() part: the key item is
\* the left operand with the left sortop or the right operand with the right
KeyMatchesClause(keyitem, restrictinfo) ==
  \/ /\ keyitem.sortop = restrictinfo.left_sortop
     /\ keyitem.key = restrictinfo.leftop
  \/ /\ keyitem.sortop = restrictinfo.right_sortop
     /\ keyitem.key = restrictinfo.rightop

\* the restrictinfos (positions in the list) the loop over k stops at for the
\* j-th key of the sublist
UsableFor(pathkey, j, restrictinfos, mergeclauses) ==
  {k \in 1..Len(restrictinfos) :
     /\ KeyMatchesClause(pathkey[j], restrictinfos[k])
     /\ ~memberClause(restrictinfos[k], mergeclauses)}

\* the two inner loops looking at the first key of the sublist only
MatchedRestrictinfo_FirstKey(pathkey, restrictinfos, mergeclauses) ==
  IF pathkey # NIL /\ UsableFor(pathkey, 1, restrictinfos, mergeclauses) # {}
  THEN LET K == UsableFor(pathkey, 1, restrictinfos, mergeclauses)
       IN CHOOSE k \in K : \A m \in K : k <= m
  ELSE 0

\* matched_restrictinfo after the loops over j and k: the position in
\* restrictinfos of the first usable clause for the first key that has one,
\* 0 for NULL
MatchedRestrictinfo(pathkey, restrictinfos, mergeclauses) ==
  LET J == {j \in 1..Len(pathkey) :
              UsableFor(pathkey, j, restrictinfos, mergeclauses) # {}}
  IN IF J = {} THEN 0
     ELSE LET j == CHOOSE x \in J : \A y \in J : x <= y
              K == UsableFor(pathkey, j, restrictinfos, mergeclauses)
          IN CHOOSE k \in K : \A m \in K : k <= m

RECURSIVE FindMergeclausesLoop(_, _, _, _)
\* the loop over the pathkeys from position i on
FindMergeclausesLoop(pks, restrictinfos, i, mergeclauses) ==
  IF i > Len(pks) THEN mergeclauses
  ELSE LET matched == MatchedRestrictinfo(pks[i], restrictinfos, mergeclauses)
       IN IF matched = 0 THEN mergeclauses
          ELSE FindMergeclausesLoop(pks, restrictinfos, i + 1,
                                    lappend(mergeclauses, restrictinfos[matched]))

\* find_mergeclauses_for_pathkeys(pathkeys, restrictinfos)
find_mergeclauses_for_pathkeys(pks, restrictinfos) ==
  FindMergeclausesLoop(pks, restrictinfos, 1, NIL)

\* the arguments of the call: any pathkeys and any list of the clauses
InitClauses ==
  /\ equi_key_list = NIL
  /\ heap = << >>
  /\ scanning = FALSE
  /\ recorded = {}
  /\ \E pks \in SeqsUpTo(FindSublists, MaxPathLen),
        restrictinfos \in SeqsUpTo(FindRestrictInfos, MaxClauses) :
       call = [op |-> "none", args |-> <<pks, restrictinfos>>]
  /\ pathkeys = NIL
  /\ keys1 = NIL
  /\ keys2 = NIL
  /\ comparison = "none"
  /\ contained = NIL
  /\ paths = NIL
  /\ required = NIL
  /\ matched_path = NIL
  /\ base_rel_list = NIL
  /\ other_rel_list = NIL
  /\ join_rel_list = NIL
  /\ relnodes = << >>
  /\ quals = NIL
  /\ estimated = NIL
  /\ portals = << >>

FindMergeclausesForPathkeys ==
  /\ call.op = "none"
  /\ call' = [op |-> "find_mergeclauses_for_pathkeys", args |-> call.args,
              result |-> find_mergeclauses_for_pathkeys(call.args[1],
                                                        call.args[2])]
  /\ UNCHANGED <<portals, equi_key_list, heap, scanning, recorded, pathkeys, cmpvars,
                 pathvars, relvars>>

NextClauses == FindMergeclausesForPathkeys

SpecClauses == InitClauses /\ [][NextClauses]_vars

\* ------------------------------------------------------------ portals
\* INT_MAX of <limits.h>: the count that means "all"
INT_MAX == 2147483647

\* the name argument when no name is given
NULL == "NULL"

\* ExecutorRun(queryDesc, direction, count) on the executor state of a query
\* that yields rows 1..ntuples: position 0 is before row 1, position
\* ntuples + 1 after the last row.  es_processed is set to the number of rows
\* retrieved, count 0 meaning no limit; a run that finds no further row
\* leaves the position off that end.  rows are the rows retrieved, in order
ExecutorRun(estate, direction, count) ==
  LET p == estate.position
      n == estate.ntuples
      avail == IF direction = "ForwardScanDirection"
               THEN (IF p > n THEN 0 ELSE n - p)
               ELSE (IF p < 1 THEN 0 ELSE p - 1)
      got == IF count = 0 \/ count > avail THEN avail ELSE count
      off_end == count = 0 \/ count > avail
  IN IF direction = "NoMovementScanDirection"
     THEN [estate |-> [estate EXCEPT !.es_processed = 0], rows |-> NIL]
     ELSE IF direction = "ForwardScanDirection"
     THEN [estate |-> [estate EXCEPT !.es_processed = got,
                                     !.position = IF off_end THEN n + 1
                                                  ELSE p + count],
           rows |-> [i \in 1..got |-> p + i]]
     ELSE [estate |-> [estate EXCEPT !.es_processed = got,
                                     !.position = IF off_end THEN 0
                                                  ELSE p - count],
           rows |-> [i \in 1..got |-> p - i]]

\* PortalIsValid(GetPortalByName(name))
PortalIsValid(ps, name) == name \in DOMAIN ps

\* the destination the executor is run with
RunDest(queryDesc, dest) ==
  IF dest # queryDesc.dest /\ ~(queryDesc.dest = "RemoteInternal" /\ dest = "Remote")
  THEN dest
  ELSE queryDesc.dest

\* the direction chosen without looking at atStart and atEnd
ScanDirectionFor_PastEnd(portal, forward, count) ==
  IF count = 0 THEN "NoMovementScanDirection"
  ELSE IF forward THEN "ForwardScanDirection"
  ELSE "BackwardScanDirection"

\* the direction the executor is run in: NoMovement when the portal is
\* already at the end of the rows in the direction asked for, or count is 0
ScanDirectionFor(portal, forward, count) ==
  IF forward
  THEN (IF portal.atEnd \/ count = 0
        THEN "NoMovementScanDirection"
        ELSE "ForwardScanDirection")
  ELSE (IF portal.atStart \/ count = 0
        THEN "NoMovementScanDirection"
        ELSE "BackwardScanDirection")

\* the part of PerformPortalFetch that takes a fetch of exactly count rows as
\* having retrieved them all
FetchRows_AllOnExactCount(ps, name, forward, count, dest) ==
  LET portal == ps[name]
      direction == ScanDirectionFor(portal, forward, count)
      execcount == IF count = INT_MAX THEN 0 ELSE count
      r == ExecutorRun(portal.estate, direction, execcount)
      all == execcount <= 0 \/ r.estate.es_processed <= execcount
      moved == direction # "NoMovementScanDirection"
  IN [portals |->
        [ps EXCEPT ![name] =
           [portal EXCEPT
              !.estate = r.estate,
              !.atStart = IF moved /\ forward /\ r.estate.es_processed > 0 THEN FALSE
                          ELSE IF moved /\ ~forward /\ all THEN TRUE
                          ELSE @,
              !.atEnd = IF moved /\ ~forward /\ r.estate.es_processed > 0 THEN FALSE
                        ELSE IF moved /\ forward /\ all THEN TRUE
                        ELSE @]],
      runs |-> <<[direction |-> direction, count |-> execcount,
                  dest |-> RunDest(portal.queryDesc, dest)]>>,
      rows |-> IF dest = "None" THEN NIL ELSE r.rows,
      es_processed |-> r.estate.es_processed]

\* the part of PerformPortalFetch after the count == 0 block: the direction
\* is chosen, the executor is run once and atStart/atEnd are updated.  runs
\* logs the ExecutorRun calls, rows the rows sent to a destination other than
\* None
FetchRows(ps, name, forward, count, dest) ==
  LET portal == ps[name]
      direction == ScanDirectionFor(portal, forward, count)
      execcount == IF count = INT_MAX THEN 0 ELSE count
      r == ExecutorRun(portal.estate, direction, execcount)
      all == execcount <= 0 \/ r.estate.es_processed < execcount
      moved == direction # "NoMovementScanDirection"
  IN [portals |->
        [ps EXCEPT ![name] =
           [portal EXCEPT
              !.estate = r.estate,
              !.atStart = IF moved /\ forward /\ r.estate.es_processed > 0 THEN FALSE
                          ELSE IF moved /\ ~forward /\ all THEN TRUE
                          ELSE @,
              !.atEnd = IF moved /\ ~forward /\ r.estate.es_processed > 0 THEN FALSE
                        ELSE IF moved /\ forward /\ all THEN TRUE
                        ELSE @]],
      runs |-> <<[direction |-> direction, count |-> execcount,
                  dest |-> RunDest(portal.queryDesc, dest)]>>,
      rows |-> IF dest = "None" THEN NIL ELSE r.rows,
      es_processed |-> r.estate.es_processed]

\* the re-fetch going one row forward without backing up first
RefetchRow_NoBackup(ps, name, dest) == FetchRows(ps, name, TRUE, 1, dest)

\* FETCH 0 on a row: PerformPortalFetch calls itself to move one row backward
\* with dest None and no completion tag, a call that passes the checks and
\* the count == 0 block, and then goes on with count 1, forward
RefetchRow(ps, name, dest) ==
  LET back == FetchRows(ps, name, FALSE, 1, "None")
      f == FetchRows(back.portals, name, TRUE, 1, dest)
  IN [f EXCEPT !.runs = back.runs \o f.runs]

\* the completion tag written at the end of PerformPortalFetch
CompletionTag(dest, es_processed) ==
  (IF dest = "None" THEN "MOVE" ELSE "FETCH") \o " " \o ToString(es_processed)

\* PerformPortalFetch with MOVE 0 run through the executor like FETCH 0
PerformPortalFetch_MoveRuns(ps, name, forward, count, dest, completionTag) ==
  LET early == [portals |-> ps, runs |-> NIL, rows |-> NIL, warning |-> "",
                completionTag |-> IF completionTag
                                  THEN (IF dest = "None" THEN "MOVE 0" ELSE "FETCH 0")
                                  ELSE NULL]
  IN IF name = NULL THEN [early EXCEPT !.warning = "missing portal name"]
     ELSE IF ~PortalIsValid(ps, name) THEN [early EXCEPT !.warning = "portal not found"]
     ELSE LET on_row == ~ps[name].atStart /\ ~ps[name].atEnd
              r == IF count = 0 /\ on_row
                   THEN RefetchRow(ps, name, dest)
                   ELSE FetchRows(ps, name, forward, count, dest)
          IN [portals |-> r.portals, runs |-> r.runs, rows |-> r.rows,
              warning |-> "",
              completionTag |-> IF completionTag
                                THEN CompletionTag(dest, r.es_processed)
                                ELSE NULL]

\* PerformPortalFetch(name, forward, count, dest, completionTag) on the portal
\* hash table ps; completionTag tells whether a buffer is given.  The result
\* has the table after the call, the ExecutorRun calls made, the rows sent to
\* dest, the buffer's content (NULL when none is given) and the warning raised
PerformPortalFetch(ps, name, forward, count, dest, completionTag) ==
  LET early == [portals |-> ps, runs |-> NIL, rows |-> NIL, warning |-> "",
                completionTag |-> IF completionTag
                                  THEN (IF dest = "None" THEN "MOVE 0" ELSE "FETCH 0")
                                  ELSE NULL]
  IN IF name = NULL THEN [early EXCEPT !.warning = "missing portal name"]
     ELSE IF ~PortalIsValid(ps, name) THEN [early EXCEPT !.warning = "portal not found"]
     ELSE LET on_row == ~ps[name].atStart /\ ~ps[name].atEnd
              r == IF count = 0 /\ on_row
                   THEN RefetchRow(ps, name, dest)
                   ELSE FetchRows(ps, name, forward, count, dest)
          IN IF count = 0 /\ dest = "None"
             THEN [early EXCEPT !.completionTag =
                                  IF completionTag /\ on_row THEN "MOVE 1" ELSE @]
             ELSE [portals |-> r.portals, runs |-> r.runs, rows |-> r.rows,
                   warning |-> "",
                   completionTag |-> IF completionTag
                                     THEN CompletionTag(dest, r.es_processed)
                                     ELSE NULL]

\* the names a FETCH or MOVE is given: none, the open cursor, a closed one
PortalNames == {NULL, "c", "d"}

\* the counts of a FETCH or MOVE: 0, positive ones, and all
FetchCounts == (0..MaxCount) \cup {INT_MAX}

\* cursor "c" is open, positioned before the first row of a query that yields
\* 0..MaxRows rows; its original destination is Remote or, for a binary
\* cursor, RemoteInternal
InitPortal ==
  /\ equi_key_list = NIL
  /\ heap = << >>
  /\ scanning = FALSE
  /\ recorded = {}
  /\ call = [op |-> "none", args |-> << >>]
  /\ pathkeys = NIL
  /\ keys1 = NIL
  /\ keys2 = NIL
  /\ comparison = "none"
  /\ contained = NIL
  /\ paths = NIL
  /\ required = NIL
  /\ matched_path = NIL
  /\ base_rel_list = NIL
  /\ other_rel_list = NIL
  /\ join_rel_list = NIL
  /\ relnodes = << >>
  /\ quals = NIL
  /\ estimated = NIL
  /\ \E n \in 0..MaxRows, qdest \in {"Remote", "RemoteInternal"} :
       portals = [name \in {"c"} |->
                    [atStart |-> TRUE, atEnd |-> FALSE,
                     queryDesc |-> [dest |-> qdest],
                     estate |-> [es_processed |-> 0, position |-> 0,
                                 ntuples |-> n]]]

\* a FETCH (dest Remote) or MOVE (dest None) statement is executed
PortalFetch ==
  \E name \in PortalNames, forward \in BOOLEAN, count \in FetchCounts,
     dest \in {"None", "Remote"}, completionTag \in BOOLEAN :
    LET r == PerformPortalFetch(portals, name, forward, count, dest, completionTag)
    IN /\ portals' = r.portals
       /\ call' = [op |-> "PerformPortalFetch",
                   args |-> <<name, forward, count, dest, completionTag>>,
                   result |-> [runs |-> r.runs, rows |-> r.rows,
                               completionTag |-> r.completionTag,
                               warning |-> r.warning],
                   before |-> portals]
       /\ UNCHANGED <<equi_key_list, heap, scanning, recorded, pathkeys,
                      cmpvars, pathvars, relvars>>

NextPortal == PortalFetch

SpecPortal == InitPortal /\ [][NextPortal]_vars

\* ------------------------------------------------------------ comparator specification
\* compare_pathkeys reads nothing but its two arguments: they are drawn from
\* the lists of sublists over three keys, two of which differ in the sortop only
CmpItems ==
  {makePathKeyItem("A.X", "int4lt"), makePathKeyItem("A.X", "int8lt"),
   makePathKeyItem("B.Y", "int4lt")}

CmpSublists ==
  {<<k>> : k \in CmpItems}
    \cup {<<makePathKeyItem("A.X", "int4lt"), makePathKeyItem("B.Y", "int4lt")>>,
          <<makePathKeyItem("B.Y", "int4lt"), makePathKeyItem("A.X", "int4lt")>>}

InitCmp ==
  /\ equi_key_list = NIL
  /\ heap = << >>
  /\ scanning = FALSE
  /\ recorded = {}
  /\ call = [op |-> "none", args |-> << >>]
  /\ pathkeys = NIL
  /\ keys1 \in SeqsUpTo(CmpSublists, MaxPathLen)
  /\ keys2 \in SeqsUpTo(CmpSublists, MaxPathLen)
  /\ comparison = "none"
  /\ contained = NIL
  /\ paths = NIL
  /\ required = NIL
  /\ matched_path = NIL
  /\ base_rel_list = NIL
  /\ other_rel_list = NIL
  /\ join_rel_list = NIL
  /\ relnodes = << >>
  /\ quals = NIL
  /\ estimated = NIL
  /\ portals = << >>

ComparePathkeys ==
  /\ comparison = "none"
  /\ comparison' = compare_pathkeys(keys1, keys2)
  /\ call' = [op |-> "compare_pathkeys", args |-> << >>]
  /\ UNCHANGED <<portals, equi_key_list, heap, scanning, recorded, pathkeys, keys1, keys2,
                 contained, pathvars, relvars>>

PathkeysContainedIn ==
  /\ contained = NIL
  /\ contained' = <<pathkeys_contained_in(keys1, keys2)>>
  /\ call' = [op |-> "pathkeys_contained_in", args |-> << >>]
  /\ UNCHANGED <<portals, equi_key_list, heap, scanning, recorded, pathkeys, keys1, keys2,
                 comparison, pathvars, relvars>>

NextCmp == ComparePathkeys \/ PathkeysContainedIn

SpecCmp == InitCmp /\ [][NextCmp]_vars

\* ------------------------------------------------------------ cheapest-path specification
\* the orderings candidate paths deliver, and those a caller requires
PathOrderings ==
  {NIL, << <<makePathKeyItem("A.X", "int4lt")>> >>,
   << <<makePathKeyItem("A.X", "int4lt")>>, <<makePathKeyItem("B.Y", "int4lt")>> >>}

RequiredOrderings ==
  {NIL, << <<makePathKeyItem("A.X", "int4lt")>> >>,
   << <<makePathKeyItem("B.Y", "int4lt")>> >>}

\* <<startup_cost, total_cost>> of the candidates: the three criteria order
\* them differently, and half the tuples cost the same from two of them
PathCosts == {<<0, 4>>, <<1, 2>>, <<1, 3>>}

Paths ==
  {[pathkeys |-> o, startup_cost |-> c[1], total_cost |-> c[2]] :
     o \in PathOrderings, c \in PathCosts}

CostSelectors == {"STARTUP_COST", "TOTAL_COST"}

\* 0, a proper fraction, and the whole (which falls back to total cost)
Fractions == 0..FractionUnits

InitPath ==
  /\ equi_key_list = NIL
  /\ heap = << >>
  /\ scanning = FALSE
  /\ recorded = {}
  /\ call = [op |-> "none", args |-> << >>]
  /\ pathkeys = NIL
  /\ keys1 = NIL
  /\ keys2 = NIL
  /\ comparison = "none"
  /\ contained = NIL
  /\ paths \in SeqsUpTo(Paths, MaxPaths)
  /\ required \in RequiredOrderings
  /\ matched_path = NIL
  /\ base_rel_list = NIL
  /\ other_rel_list = NIL
  /\ join_rel_list = NIL
  /\ relnodes = << >>
  /\ quals = NIL
  /\ estimated = NIL
  /\ portals = << >>

GetCheapestPathForPathkeys ==
  /\ matched_path = NIL
  /\ \E cost_criterion \in CostSelectors :
       /\ matched_path' =
            <<get_cheapest_path_for_pathkeys(paths, required, cost_criterion)>>
       /\ call' = [op |-> "get_cheapest_path_for_pathkeys",
                   args |-> <<cost_criterion>>]
  /\ UNCHANGED <<portals, equi_key_list, heap, scanning, recorded, pathkeys, cmpvars,
                 paths, required, relvars>>

GetCheapestFractionalPathForPathkeys ==
  /\ matched_path = NIL
  /\ \E fraction \in Fractions :
       /\ matched_path' =
            <<get_cheapest_fractional_path_for_pathkeys(paths, required, fraction)>>
       /\ call' = [op |-> "get_cheapest_fractional_path_for_pathkeys",
                   args |-> <<fraction>>]
  /\ UNCHANGED <<portals, equi_key_list, heap, scanning, recorded, pathkeys, cmpvars,
                 paths, required, relvars>>

NextPath == GetCheapestPathForPathkeys \/ GetCheapestFractionalPathForPathkeys

SpecPath == InitPath /\ [][NextPath]_vars

\* ------------------------------------------------------------ index pathkeys specification
\* index->indexkeys: attribute numbers ended by 0, NIL for a null pointer
IndexKeyArrays == {NIL, <<0>>, <<1, 0>>, <<2, 0>>, <<1, 2, 0>>, <<2, 1, 0>>}

\* index->ordering: sortops ended by InvalidOid, NIL for a null pointer; an
\* unordered index has InvalidOid first
OrderingArrays ==
  {NIL} \cup {o \o <<InvalidOid>> : o \in SeqsUpTo(IndexSortops, MaxPathLen)}

\* the IndexOptInfos; indproc is InvalidOid for a non-functional index
Indexes ==
  [indexkeys : IndexKeyArrays, ordering : OrderingArrays,
   indproc : {InvalidOid, "lower"}]

ScanDirections ==
  {"BackwardScanDirection", "NoMovementScanDirection", "ForwardScanDirection"}

\* the mergejoinable clauses of the query on the indexed rel
IndexRestrictInfos ==
  {[leftop |-> "A.X", rightop |-> "B.Y",
    left_sortop |-> "int4gt", right_sortop |-> "int4gt"],
   [leftop |-> "lower(A.X, A.W)", rightop |-> "B.Y",
    left_sortop |-> "int4lt", right_sortop |-> "int4lt"]}

\* the query has at most one of the clauses
ScanIndexClause ==
  /\ equi_key_list = NIL
  /\ \E restrictinfo \in IndexRestrictInfos :
       /\ AddEquijoinedKeys(restrictinfo)
       /\ UNCHANGED recorded

\* build_index_pathkeys(root, rel, index, scandir), once the equivalence
\* sets are complete
BuildIndexPathkeys ==
  /\ ~scanning
  /\ call.op # "build_index_pathkeys"
  /\ \E index \in Indexes, scandir \in ScanDirections :
       LET r == build_index_pathkeys(heap, equi_key_list, IndexedRel,
                                     index, scandir)
       IN /\ pathkeys' = r.list
          /\ heap' = r.heap
          /\ call' = [op |-> "build_index_pathkeys", args |-> <<index, scandir>>]
  /\ UNCHANGED <<portals, equi_key_list, scanning, recorded, cmpvars, pathvars, relvars>>

NextIndex == ScanIndexClause \/ EndScan \/ BuildIndexPathkeys

SpecIndex == Init /\ [][NextIndex]_vars

\* ------------------------------------------------------------ relation-node specification
InitRel == Init

\* what a call that ends in elog(ERROR) gives back: no node
ERROR == <<0>>

\* build_base_rel that looks for the relid in base_rel_list only
BuildBaseRel_BaseListOnly(relid) ==
  IF InRelList(relnodes, base_rel_list, relid) \/ ~SupportedRTEKind(relid)
  THEN /\ call' = [op |-> "build_base_rel", args |-> <<relid>>,
                   result |-> ERROR]
       /\ UNCHANGED <<portals, equi_key_list, heap, scanning, recorded, pathkeys,
                      cmpvars, pathvars, relvars>>
  ELSE /\ relnodes' = Append(relnodes, make_base_rel(relid))
       /\ base_rel_list' = lcons(Len(relnodes) + 1, base_rel_list)
       /\ call' = [op |-> "build_base_rel", args |-> <<relid>>,
                   result |-> NIL]
       /\ UNCHANGED <<portals, equi_key_list, heap, scanning, recorded, pathkeys,
                      cmpvars, pathvars, other_rel_list, join_rel_list,
                      quals, estimated>>

\* build_base_rel(root, relid)
BuildBaseRel(relid) ==
  IF InRelList(relnodes, base_rel_list, relid)
       \/ InRelList(relnodes, other_rel_list, relid)
  THEN /\ call' = [op |-> "build_base_rel", args |-> <<relid>>,
                   result |-> ERROR]
       /\ UNCHANGED <<portals, equi_key_list, heap, scanning, recorded, pathkeys,
                      cmpvars, pathvars, relvars>>
  ELSE IF ~SupportedRTEKind(relid)
  THEN /\ call' = [op |-> "build_base_rel", args |-> <<relid>>,
                   result |-> ERROR]
       /\ UNCHANGED <<portals, equi_key_list, heap, scanning, recorded, pathkeys,
                      cmpvars, pathvars, relvars>>
  ELSE /\ relnodes' = Append(relnodes, make_base_rel(relid))
       /\ base_rel_list' = lcons(Len(relnodes) + 1, base_rel_list)
       /\ call' = [op |-> "build_base_rel", args |-> <<relid>>,
                   result |-> NIL]
       /\ UNCHANGED <<portals, equi_key_list, heap, scanning, recorded, pathkeys,
                      cmpvars, pathvars, other_rel_list, join_rel_list,
                      quals, estimated>>

\* build_other_rel that does not look for a node made already
BuildOtherRel_NoLookup(relid) ==
  IF InRelList(relnodes, base_rel_list, relid) \/ ~SupportedRTEKind(relid)
  THEN /\ call' = [op |-> "build_other_rel", args |-> <<relid>>,
                   result |-> ERROR]
       /\ UNCHANGED <<portals, equi_key_list, heap, scanning, recorded, pathkeys,
                      cmpvars, pathvars, relvars>>
  ELSE /\ relnodes' = Append(relnodes,
                        [make_base_rel(relid) EXCEPT
                           !.reloptkind = "RELOPT_OTHER_CHILD_REL"])
       /\ other_rel_list' = lcons(Len(relnodes) + 1, other_rel_list)
       /\ call' = [op |-> "build_other_rel", args |-> <<relid>>,
                   result |-> <<Len(relnodes) + 1>>]
       /\ UNCHANGED <<portals, equi_key_list, heap, scanning, recorded, pathkeys,
                      cmpvars, pathvars, base_rel_list, join_rel_list,
                      quals, estimated>>

\* build_other_rel(root, relid)
BuildOtherRel(relid) ==
  IF InRelList(relnodes, other_rel_list, relid)
  THEN /\ call' = [op |-> "build_other_rel", args |-> <<relid>>,
                   result |-> <<FindInRelList(relnodes, other_rel_list, relid)>>]
       /\ UNCHANGED <<portals, equi_key_list, heap, scanning, recorded, pathkeys,
                      cmpvars, pathvars, relvars>>
  ELSE IF InRelList(relnodes, base_rel_list, relid)
  THEN /\ call' = [op |-> "build_other_rel", args |-> <<relid>>,
                   result |-> ERROR]
       /\ UNCHANGED <<portals, equi_key_list, heap, scanning, recorded, pathkeys,
                      cmpvars, pathvars, relvars>>
  ELSE IF ~SupportedRTEKind(relid)
  THEN /\ call' = [op |-> "build_other_rel", args |-> <<relid>>,
                   result |-> ERROR]
       /\ UNCHANGED <<portals, equi_key_list, heap, scanning, recorded, pathkeys,
                      cmpvars, pathvars, relvars>>
  ELSE /\ relnodes' = Append(relnodes,
                        [make_base_rel(relid) EXCEPT
                           !.reloptkind = "RELOPT_OTHER_CHILD_REL"])
       /\ other_rel_list' = lcons(Len(relnodes) + 1, other_rel_list)
       /\ call' = [op |-> "build_other_rel", args |-> <<relid>>,
                   result |-> <<Len(relnodes) + 1>>]
       /\ UNCHANGED <<portals, equi_key_list, heap, scanning, recorded, pathkeys,
                      cmpvars, pathvars, base_rel_list, join_rel_list,
                      quals, estimated>>

\* the position in JoinClauses of the clause distributed last, 0 for none
LastQual ==
  IF quals = NIL THEN 0
  ELSE CHOOSE n \in 1..Len(JoinClauses) : JoinClauses[n] = quals[Len(quals)]

\* the next join clause of the WHERE clause is distributed to the base rels it
\* mentions, before any joinrel is built: its Vars are added to their
\* targetlists and the clause to their JoinInfos
DistributeQual ==
  /\ join_rel_list = NIL
  /\ \E n \in (LastQual + 1)..Len(JoinClauses) :
       LET clause == JoinClauses[n]
       IN /\ \A k \in 1..Len(clause.relids) :
                find_base_rel(relnodes, base_rel_list, other_rel_list,
                              clause.relids[k]) # 0
          /\ relnodes' =
               add_join_info_to_rels(
                 add_vars_to_targetlist(relnodes, base_rel_list, other_rel_list,
                                        clause.vars),
                 base_rel_list, other_rel_list, clause, clause.relids)
          /\ quals' = lappend(quals, clause)
          /\ call' = [op |-> "distribute_qual_to_rels", args |-> <<clause>>,
                      result |-> NIL]
  /\ UNCHANGED <<portals, equi_key_list, heap, scanning, recorded, pathkeys, cmpvars,
                 pathvars, base_rel_list, other_rel_list, join_rel_list,
                 estimated>>

\* build_join_rel(root, joinrelids, outer_rel, inner_rel, jointype,
\* &restrictlist) for two nodes over disjoint rels, joinrelids being the
\* relids of the outer followed by those of the inner
BuildJoinRel(outer, inner) ==
  /\ \A n \in 1..Len(relnodes[outer].relids) :
       ~intMember(relnodes[outer].relids[n], relnodes[inner].relids)
  /\ LET joinrelids == nconc(listCopy(relnodes[outer].relids),
                             listCopy(relnodes[inner].relids))
         r == build_join_rel(relnodes, join_rel_list, estimated,
                             joinrelids, outer, inner)
     IN /\ relnodes' = r.relnodes
        /\ join_rel_list' = r.join_rel_list
        /\ estimated' = r.estimated
        /\ call' = [op |-> "build_join_rel",
                    args |-> <<joinrelids, outer, inner>>,
                    result |-> <<r.joinrel, r.restrictlist>>]
  /\ UNCHANGED <<portals, equi_key_list, heap, scanning, recorded, pathkeys, cmpvars,
                 pathvars, base_rel_list, other_rel_list, quals>>

\* the planner's calls in any order, clauses left aside
BuildAnyBaseRel == \E relid \in DOMAIN rtable : BuildBaseRel(relid)

BuildAnyOtherRel == \E relid \in DOMAIN rtable : BuildOtherRel(relid)

\* at most MaxJoinRels joinrels are made; those made are found again freely
BuildAnyJoinRel ==
  \E outer, inner \in 1..Len(relnodes) :
    /\ \/ Len(join_rel_list) < MaxJoinRels
       \/ find_join_rel(relnodes, join_rel_list,
                        nconc(relnodes[outer].relids, relnodes[inner].relids)) # 0
    /\ BuildJoinRel(outer, inner)

NextRel == BuildAnyBaseRel \/ BuildAnyOtherRel \/ BuildAnyJoinRel

SpecRel == InitRel /\ [][NextRel]_vars

\* the planner's sequence: the base rels in rangetable order, then the join
\* clauses of the WHERE clause, then the joinrels
AddBaseRelToQuery ==
  /\ Len(base_rel_list) < Cardinality(RelIds)
  /\ BuildBaseRel(Len(base_rel_list) + 1)

MakeJoinRel ==
  /\ Len(quals) = Len(JoinClauses)
  /\ \E outer, inner \in 1..Len(relnodes) : BuildJoinRel(outer, inner)

NextJoin == AddBaseRelToQuery \/ DistributeQual \/ MakeJoinRel

SpecJoin == InitRel /\ [][NextJoin]_vars

\* a query with any of the join clauses in its WHERE clause: the base rels in
\* rangetable order, the clauses present in WHERE order, then up to
\* MaxJoinRels joinrels
NextWhere == AddBaseRelToQuery \/ DistributeQual \/ BuildAnyJoinRel

SpecWhere == InitRel /\ [][NextWhere]_vars

\* find_base_rel(root, relid)
FindBaseRel(relid) ==
  /\ call' = [op |-> "find_base_rel", args |-> <<relid>>,
              result |-> IF find_base_rel(relnodes, base_rel_list,
                                          other_rel_list, relid) = 0
                         THEN ERROR
                         ELSE <<find_base_rel(relnodes, base_rel_list,
                                              other_rel_list, relid)>>]
  /\ UNCHANGED <<portals, equi_key_list, heap, scanning, recorded, pathkeys, cmpvars,
                 pathvars, relvars>>

FindAnyBaseRel == \E relid \in DOMAIN rtable : FindBaseRel(relid)

\* base and other rels are made and looked up in any order
NextFind == BuildAnyBaseRel \/ BuildAnyOtherRel \/ FindAnyBaseRel

SpecFind == InitRel /\ [][NextFind]_vars

\* ------------------------------------------------------------ registry properties
\* the members of the sublist make_canonical_pathkey returns for item
Resolved(h, ekl, item) ==
  LET r == make_canonical_pathkey(h, ekl, item) IN r.heap[r.list]

\* item is a member of some set of the registry
InRegistry(h, ekl, item) == \E i \in 1..Len(ekl) : member(item, h[ekl[i]])

\* the keys covered by the registry
Covered(h, ekl) == UNION {Range(h[ekl[i]]) : i \in 1..Len(ekl)}

Component(item) == Reach({item}, recorded)

LeftItem(ri) == makePathKeyItem(ri.leftop, ri.left_sortop)

RightItem(ri) == makePathKeyItem(ri.rightop, ri.right_sortop)

\* C1: after any sequence of add_equijoined_keys calls, two keys resolve to
\* the same class iff the recorded equalities connect them; the class holds
\* exactly the keys of the connected component, each once, connected keys get
\* the very same registry sublist, and a key connected to no other key
\* resolves to the one-element list of itself.
C1_UnionFindClosure ==
  LET res  == [k \in PathKeyItems |-> Resolved(heap, equi_key_list, k)]
      set  == [k \in PathKeyItems |-> FindEquiKeySet(heap, equi_key_list, k)]
      comp == [k \in PathKeyItems |-> Component(k)]
  IN \A k1 \in PathKeyItems :
       /\ Range(res[k1]) = comp[k1]
       /\ Len(res[k1]) = Cardinality(comp[k1])
       /\ (comp[k1] = {k1} => res[k1] = <<k1>>)
       /\ \A k2 \in PathKeyItems :
            /\ (res[k1] = res[k2]) <=> (k2 \in comp[k1])
            /\ (k2 \in comp[k1] /\ k2 # k1 => set[k1] # 0 /\ set[k1] = set[k2])

\* (A=B), (B=C), (D=E) recorded: a 3-member class, a 2-member class and an
\* unrelated key F
C1_Witness ==
  /\ Cardinality(recorded) = 3
  /\ \E a, d, f \in PathKeyItems :
       /\ Len(Resolved(heap, equi_key_list, a)) = 3
       /\ Len(Resolved(heap, equi_key_list, d)) = 2
       /\ Resolved(heap, equi_key_list, f) = <<f>>
       /\ ~InRegistry(heap, equi_key_list, f)

\* C2: the sets of equi_key_list are pairwise disjoint, no set holds a key
\* twice, and every set has at least two members.
C2_RegistryInvariant ==
  /\ \A i \in 1..Len(equi_key_list) :
       LET set == heap[equi_key_list[i]]
       IN /\ Len(set) >= 2
          /\ \A m, n \in 1..Len(set) : m # n => ~equal(set[m], set[n])
  /\ \A i, j \in 1..Len(equi_key_list) :
       i # j => Range(heap[equi_key_list[i]]) \cap Range(heap[equi_key_list[j]]) = {}

\* two sets were merged into one of four keys by the last call
C2_Witness ==
  /\ call.op = "add_equijoined_keys"
  /\ Len(equi_key_list) = 1
  /\ Len(heap[equi_key_list[1]]) = 4
  /\ Cardinality(recorded) = 3

\* C3: a call of add_equijoined_keys never separates two keys that were in
\* one class and never removes a key from the keys the registry covers.
C3_MonotonicMerge ==
  [][/\ \A i \in 1..Len(equi_key_list) :
          \E j \in 1..Len(equi_key_list') :
            Range(heap[equi_key_list[i]]) \subseteq Range(heap'[equi_key_list'[j]])
     /\ \A k1, k2 \in Covered(heap, equi_key_list) :
          SameSet(heap, equi_key_list, k1, k2) => SameSet(heap', equi_key_list', k1, k2)
    ]_vars

\* a later call has grown an existing class to three keys beside another class
C3_Witness ==
  /\ call.op = "add_equijoined_keys"
  /\ Len(equi_key_list) = 2
  /\ Len(heap[equi_key_list[1]]) = 3

\* C4: a call with equal left and right key (A=A) leaves equi_key_list and
\* every set of it as they were.
C4_SelfEqualityNoOp ==
  [][(/\ call'.op = "add_equijoined_keys"
      /\ equal(LeftItem(call'.args[1]), RightItem(call'.args[1])))
       => (equi_key_list' = equi_key_list /\ heap' = heap)]_vars

\* A=A was given while A is a member of a class of the registry
C4_Witness ==
  /\ call.op = "add_equijoined_keys"
  /\ equal(LeftItem(call.args[1]), RightItem(call.args[1]))
  /\ InRegistry(heap, equi_key_list, LeftItem(call.args[1]))

\* C5 as stated: a call whose left and right expressions are identical leaves
\* the registry unchanged, whatever the two sortops are.
C5_IdenticalExprIgnored ==
  [][(/\ call'.op = "add_equijoined_keys"
      /\ call'.args[1].leftop = call'.args[1].rightop)
       => (equi_key_list' = equi_key_list /\ heap' = heap)]_vars

\* C5 amended: with identical expressions the call leaves the registry
\* unchanged when the two sortops are equal, and when they differ it records
\* the two keys like any other equality: both are members of the set at the
\* front of equi_key_list afterwards.
C5_IdenticalExprBySortop ==
  [][(/\ call'.op = "add_equijoined_keys"
      /\ call'.args[1].leftop = call'.args[1].rightop)
       => IF call'.args[1].left_sortop = call'.args[1].right_sortop
          THEN equi_key_list' = equi_key_list /\ heap' = heap
          ELSE /\ equi_key_list' # NIL
               /\ member(LeftItem(call'.args[1]), heap'[Head(equi_key_list')])
               /\ member(RightItem(call'.args[1]), heap'[Head(equi_key_list')])]_vars

\* X=X with two different sortops was recorded
C5_Witness ==
  /\ call.op = "add_equijoined_keys"
  /\ call.args[1].leftop = call.args[1].rightop
  /\ call.args[1].left_sortop # call.args[1].right_sortop
  /\ SameSet(heap, equi_key_list, LeftItem(call.args[1]), RightItem(call.args[1]))
\* ------------------------------------------------------------ canonicalization properties
\* the pathkeys list held is made of sublists make_canonical_pathkey returned
Canonical == call.op \in {"canonicalize_pathkeys", "make_pathkeys_for_mergeclauses"}

\* C6: canonicalize_pathkeys (make_canonical_pathkey at each position) leaves
\* equi_key_list and its sets as they are; for a key that is a member of a
\* set the position returned is that very set of the registry, and for a key
\* in no set it is a newly allocated one-element list of the key that is not
\* in equi_key_list.
C6_ResolveReadOnly ==
  [][call'.op = "canonicalize_pathkeys" =>
       /\ equi_key_list' = equi_key_list
       /\ \A a \in Range(equi_key_list) : a \in DOMAIN heap' /\ heap'[a] = heap[a]
       /\ \A i \in (DOMAIN pathkeys) \cap (DOMAIN pathkeys') :
            LET item == Head(heap[pathkeys[i]])
            IN IF InRegistry(heap, equi_key_list, item)
               THEN /\ pathkeys'[i] \in Range(equi_key_list)
                    /\ member(item, heap[pathkeys'[i]])
               ELSE /\ pathkeys'[i] \notin Range(equi_key_list')
                    /\ pathkeys'[i] \notin DOMAIN heap
                    /\ heap'[pathkeys'[i]] = <<item>>
                    /\ \A j \in DOMAIN pathkeys' : j # i => pathkeys'[j] # pathkeys'[i]
    ]_vars

\* a canonical list with a set of the registry at one position and a fresh
\* one-element list at another
C6_Witness ==
  /\ call.op = "canonicalize_pathkeys"
  /\ \E i, j \in DOMAIN pathkeys :
       /\ pathkeys[i] \in Range(equi_key_list)
       /\ pathkeys[j] \notin Range(equi_key_list)
       /\ Len(heap[pathkeys[j]]) = 1

\* C7: the list canonicalize_pathkeys returns is as long as its argument and
\* its position i is what make_canonical_pathkey gives for the first member
\* of position i of the argument, in the same order.
C7_CanonicalizePositions ==
  call.op = "canonicalize_pathkeys" =>
    /\ Len(pathkeys) = Len(call.args[1])
    /\ \A i \in DOMAIN pathkeys :
         LET item == Head(call.args[1][i])
         IN /\ heap[pathkeys[i]] = Resolved(heap, equi_key_list, item)
            /\ InRegistry(heap, equi_key_list, item)
                 => pathkeys[i] = FindEquiKeySet(heap, equi_key_list, item)

\* a two-position argument whose first position had several members, made
\* into two different canonical positions
C7_Witness ==
  /\ call.op = "canonicalize_pathkeys"
  /\ Len(pathkeys) = 2
  /\ Len(call.args[1][1]) >= 2
  /\ heap[pathkeys[1]] # heap[pathkeys[2]]

\* C8: canonicalizing a list that canonicalize_pathkeys returned gives a list
\* with equal positions, and every position of several members is the same
\* set of the registry as before.
C8_CanonicalizeIdempotent ==
  [][(call.op = "canonicalize_pathkeys" /\ call'.op = "canonicalize_pathkeys") =>
       /\ Deref(heap', pathkeys') = Deref(heap, pathkeys)
       /\ \A i \in DOMAIN pathkeys :
            Len(heap[pathkeys[i]]) >= 2 => pathkeys'[i] = pathkeys[i]
    ]_vars

\* the list held is the result of canonicalizing an already canonical list
\* with a set of the registry and a one-element position
C8_Witness ==
  /\ call.op = "canonicalize_pathkeys"
  /\ call.args[1] = Deref(heap, pathkeys)
  /\ \E i, j \in DOMAIN pathkeys :
       Len(call.args[1][i]) >= 2 /\ Len(call.args[1][j]) = 1

SomePositionDiffers(k1, k2) ==
  \E i \in 1..Len(k1) : i <= Len(k2) /\ k1[i] # k2[i]

\* C10: compare_pathkeys returns PATHKEYS_DIFFERENT iff some position within
\* the common length differs; otherwise PATHKEYS_EQUAL iff the lists have the
\* same length, PATHKEYS_BETTER1 iff keys1 is the longer and PATHKEYS_BETTER2
\* iff keys2 is the longer; a list compared with itself gives PATHKEYS_EQUAL.
C10_CompareResult ==
  comparison # "none" =>
    /\ comparison \in {"PATHKEYS_EQUAL", "PATHKEYS_DIFFERENT",
                       "PATHKEYS_BETTER1", "PATHKEYS_BETTER2"}
    /\ (comparison = "PATHKEYS_DIFFERENT") <=> SomePositionDiffers(keys1, keys2)
    /\ ~SomePositionDiffers(keys1, keys2) =>
         /\ (comparison = "PATHKEYS_EQUAL") <=> (Len(keys1) = Len(keys2))
         /\ (comparison = "PATHKEYS_BETTER1") <=> (Len(keys1) > Len(keys2))
         /\ (comparison = "PATHKEYS_BETTER2") <=> (Len(keys1) < Len(keys2))
    /\ (keys1 = keys2 => comparison = "PATHKEYS_EQUAL")

\* keys2 is a strict, non-empty prefix of keys1
C10_Witness ==
  /\ comparison = "PATHKEYS_BETTER1"
  /\ Len(keys2) >= 1
  /\ Len(keys1) > Len(keys2)

\* ------------------------------------------------------------ containment
\* keys1 is a positionwise prefix of keys2, possibly all of it
IsPrefix(k1, k2) ==
  /\ Len(k1) <= Len(k2)
  /\ \A i \in 1..Len(k1) : equalList(k1[i], k2[i])

\* C11: pathkeys_contained_in(keys1, keys2) is true iff compare_pathkeys of
\* the two lists is PATHKEYS_EQUAL or PATHKEYS_BETTER2, that is iff keys1 is a
\* positionwise prefix of keys2 (possibly equal to it); an empty keys1 is
\* contained in every keys2.
C11_ContainedIn ==
  contained # NIL =>
    /\ contained[1] \in BOOLEAN
    /\ contained[1] <=> compare_pathkeys(keys1, keys2)
                          \in {"PATHKEYS_EQUAL", "PATHKEYS_BETTER2"}
    /\ contained[1] <=> IsPrefix(keys1, keys2)
    /\ (keys1 = NIL => contained[1])

\* a non-empty required list is a strict prefix of the offered one
C11_Witness ==
  /\ contained = <<TRUE>>
  /\ Len(keys1) >= 1
  /\ Len(keys2) > Len(keys1)

\* the lists of extra positions an offered ordering is extended with
Extensions == SeqsUpTo(CmpSublists, MaxPathLen)

\* C12: when pathkeys_contained_in(keys1, keys2) is true it stays true for
\* keys2 extended at its end by any list of extra positions.
C12_ContainedMonotonic ==
  contained = <<TRUE>> =>
    \A E \in Extensions : pathkeys_contained_in(keys1, keys2 \o E)

\* a non-empty required list equal to the offered one: every non-empty
\* extension makes the offered list the longer one
C12_Witness ==
  /\ contained = <<TRUE>>
  /\ Len(keys1) >= 1
  /\ Len(keys2) = Len(keys1)

\* ------------------------------------------------------------ cheapest path
\* the positions of the candidates whose pathkeys satisfy the required ordering
Satisfying == {i \in 1..Len(paths) : pathkeys_contained_in(required, paths[i].pathkeys)}

\* the comparison the last call ordered the candidates by
CallCompare(path1, path2) ==
  IF call.op = "get_cheapest_path_for_pathkeys"
  THEN compare_path_costs(path1, path2, call.args[1])
  ELSE compare_fractional_path_costs(path1, path2, call.args[1])

\* path1 costs no more than path2 in the cost the last call selected by
CallCostLeq(path1, path2) ==
  IF call.op = "get_cheapest_path_for_pathkeys"
  THEN IF call.args[1] = "STARTUP_COST"
       THEN path1.startup_cost <= path2.startup_cost
       ELSE path1.total_cost <= path2.total_cost
  ELSE IF call.args[1] <= 0 \/ call.args[1] >= FractionUnits
       THEN path1.total_cost <= path2.total_cost
       ELSE FractionalCost(path1, call.args[1]) <= FractionalCost(path2, call.args[1])

\* the last call made on the given candidates
CallOn(ps) ==
  IF call.op = "get_cheapest_path_for_pathkeys"
  THEN get_cheapest_path_for_pathkeys(ps, required, call.args[1])
  ELSE get_cheapest_fractional_path_for_pathkeys(ps, required, call.args[1])

\* the satisfying candidates alone, in list order
SatisfyingPaths ==
  SelectSeq(paths, LAMBDA p : pathkeys_contained_in(required, p.pathkeys))

\* C13: get_cheapest_path_for_pathkeys and its fractional variant return NULL
\* iff no candidate satisfies the required ordering; otherwise a candidate that
\* satisfies it and costs, by the criterion given, no more than any other
\* satisfying candidate; the candidates that do not satisfy the ordering do
\* not affect the result: it is the path returned for the satisfying ones alone.
C13_CheapestSatisfying ==
  matched_path # NIL =>
    LET m == matched_path[1]
        r == CallOn(SatisfyingPaths)
    IN /\ m \in 0..Len(paths)
       /\ (m = 0) <=> (Satisfying = {})
       /\ m # 0 =>
            /\ m \in Satisfying
            /\ \A j \in Satisfying :
                 /\ CallCompare(paths[m], paths[j]) <= 0
                 /\ CallCostLeq(paths[m], paths[j])
       /\ (m = 0) <=> (r = 0)
       /\ m # 0 => Cardinality({j \in Satisfying : j <= m}) = r

\* the path returned replaced an earlier satisfying one, and a candidate that
\* does not satisfy the ordering costs strictly less than the path returned
C13_Witness ==
  /\ matched_path # NIL
  /\ matched_path[1] # 0
  /\ \E j \in Satisfying : j < matched_path[1]
  /\ \E j \in (1..Len(paths)) \ Satisfying :
       CallCompare(paths[j], paths[matched_path[1]]) < 0

\* ------------------------------------------------------------ relation nodes
\* the nodes of the three lists of the root
AllRels == Range(base_rel_list) \cup Range(other_rel_list) \cup Range(join_rel_list)

\* C14: whatever build_base_rel, build_other_rel and build_join_rel calls were
\* made, failed ones included, no two distinct nodes of base_rel_list,
\* other_rel_list and join_rel_list have the same set of relids, and no node
\* is listed twice.
C14_RelUnique ==
  /\ \A a, b \in AllRels :
       a # b => ~sameseti(relnodes[a].relids, relnodes[b].relids)
  /\ Len(base_rel_list) + Len(other_rel_list) + Len(join_rel_list)
       = Cardinality(AllRels)

\* base, other and join nodes exist and the last call, a build_base_rel for a
\* relid that has a node already, failed
C14_Witness ==
  /\ base_rel_list # NIL
  /\ other_rel_list # NIL
  /\ Len(join_rel_list) >= 2
  /\ call.op = "build_base_rel"
  /\ call.args[1] \in RelIds
  /\ call.result = ERROR

\* the step is a build_join_rel call
JoinCall == call'.op = "build_join_rel"

\* C15: a build_join_rel call whose joinrelids are, in any order and from any
\* pair of input nodes, the relids of a node of join_rel_list returns that
\* node and leaves join_rel_list as it is; otherwise it returns a new node
\* put at the front of join_rel_list; join_rel_list never holds two nodes for
\* one set of relids.
C15_JoinConfluence ==
  [][JoinCall =>
       LET joinrelids == call'.args[1]
           joinrel == call'.result[1]
           found == {a \in Range(join_rel_list) :
                       sameseti(relnodes[a].relids, joinrelids)}
       IN /\ found # {} => /\ joinrel \in found
                           /\ join_rel_list' = join_rel_list
          /\ found = {} => /\ joinrel \notin DOMAIN relnodes
                           /\ join_rel_list' = lcons(joinrel, join_rel_list)
          /\ sameseti(relnodes'[joinrel].relids, joinrelids)
          /\ \A a, b \in Range(join_rel_list') :
               sameseti(relnodes'[a].relids, relnodes'[b].relids) => a = b
          /\ Cardinality(Range(join_rel_list')) = Len(join_rel_list')]_vars

\* the join of all three rels was asked for with the rel in the middle of the
\* node's relids as the outer input, a pair the node was not made from, and the
\* node made first was returned
C15_Witness ==
  /\ call.op = "build_join_rel"
  /\ Len(call.args[1]) = 3
  /\ call.result[1] \in Range(join_rel_list)
  /\ relnodes[call.result[1]].relids # call.args[1]
  /\ relnodes[call.args[2]].relids = <<relnodes[call.result[1]].relids[2]>>

\* how many times node a was given to set_joinrel_size_estimates
TimesEstimated(est, a) == Cardinality({n \in 1..Len(est) : est[n] = a})

\* C16: a build_join_rel call that finds a node for joinrelids leaves every
\* node (targetlist, rows, width and joininfo of the node found included) and
\* join_rel_list as they were and computes no size estimate; a call that makes
\* a node computes the estimate of that node once; so every joinrel has had
\* its targetlist and size estimate computed exactly once.
C16_ReuseUnchanged ==
  [][JoinCall =>
       LET joinrelids == call'.args[1]
           joinrel == call'.result[1]
           found == {a \in Range(join_rel_list) :
                       sameseti(relnodes[a].relids, joinrelids)}
       IN /\ found # {} => /\ relnodes' = relnodes
                           /\ relnodes'[joinrel].targetlist = relnodes[joinrel].targetlist
                           /\ relnodes'[joinrel].rows = relnodes[joinrel].rows
                           /\ relnodes'[joinrel].width = relnodes[joinrel].width
                           /\ relnodes'[joinrel].joininfo = relnodes[joinrel].joininfo
                           /\ join_rel_list' = join_rel_list
                           /\ estimated' = estimated
          /\ found = {} => /\ estimated' = lappend(estimated, joinrel)
                           /\ \A a \in DOMAIN relnodes : relnodes'[a] = relnodes[a]
          /\ \A a \in Range(join_rel_list') : TimesEstimated(estimated', a) = 1]_vars

\* a joinrel was found for a pair of inputs whose size estimate would have
\* given it other rows than it has
C16_Witness ==
  /\ call.op = "build_join_rel"
  /\ Len(estimated) = Len(join_rel_list)
  /\ LET joinrel == relnodes[call.result[1]]
     IN /\ joinrel.relids # call.args[1]
        /\ set_joinrel_size_estimates(joinrel, relnodes[call.args[2]],
                                      relnodes[call.args[3]], call.result[2]).rows
             # joinrel.rows

\* the JoinInfo nodes of the two inputs of the last build_join_rel call
InputJoinInfos ==
  Range(relnodes[call.args[2]].joininfo) \cup Range(relnodes[call.args[3]].joininfo)

\* the rels the JoinInfo awaits are all among relids
Graduates(joininfo, relids) == Range(joininfo.unjoined_relids) \subseteq Range(relids)

\* C17: the restriction list build_join_rel computes for (outer_rel,
\* inner_rel) holds, before duplicates and redundant clauses are dropped, a
\* clause iff a JoinInfo of outer_rel or inner_rel whose unjoined_relids are a
\* subset of joinrelids stores it; the list returned is taken from those
\* clauses, and no clause of a JoinInfo that still awaits a rel outside
\* joinrelids is returned.
C17_RestrictlistGraduates ==
  call.op = "build_join_rel" =>
    LET joinrelids == call.args[1]
        restrictlist == call.result[2]
        rlist == CollectRestrictlist(relnodes[call.result[1]],
                                     relnodes[call.args[2]], relnodes[call.args[3]])
    IN /\ \A c \in Range(JoinClauses) :
            memberClause(c, rlist) <=>
              \E joininfo \in InputJoinInfos :
                /\ Graduates(joininfo, joinrelids)
                /\ memberClause(c, joininfo.jinfo_restrictinfo)
       /\ restrictlist = remove_redundant_join_clauses(rlist)
       /\ Range(restrictlist) \subseteq Range(rlist)
       /\ \A joininfo \in InputJoinInfos :
            ~Graduates(joininfo, joinrelids) =>
              \A c \in Range(joininfo.jinfo_restrictinfo) :
                ~memberClause(c, restrictlist)

\* the outer input of the call has a JoinInfo whose clauses were returned and
\* another that still awaits a rel outside the join
C17_Witness ==
  /\ call.op = "build_join_rel"
  /\ call.result[2] # NIL
  /\ \E j1, j2 \in Range(relnodes[call.args[2]].joininfo) :
       /\ Graduates(j1, call.args[1])
       /\ ~Graduates(j2, call.args[1])
       /\ j1.jinfo_restrictinfo # NIL
       /\ j2.jinfo_restrictinfo # NIL

\* the rels a JoinInfo of an input still awaits once relids are joined
StillAwaited(joininfo, relids) == Range(joininfo.unjoined_relids) \ Range(relids)

\* the joinlist of a joinrel, given the JoinInfos of the two inputs it was
\* made from: every input JoinInfo that awaits a rel outside the joinrel has
\* its clauses in the joinrel's JoinInfo for the rels still awaited; the
\* others add nothing; one JoinInfo per awaited set, no clause twice in one
JoinlistOf(joinrel, inputs) ==
  /\ \A e \in inputs :
       StillAwaited(e, joinrel.relids) # {} =>
         \E n \in Range(joinrel.joininfo) :
           /\ Range(n.unjoined_relids) = StillAwaited(e, joinrel.relids)
           /\ Range(e.jinfo_restrictinfo) \subseteq Range(n.jinfo_restrictinfo)
  /\ \A n \in Range(joinrel.joininfo) :
       Range(n.jinfo_restrictinfo) =
         UNION {Range(e.jinfo_restrictinfo) :
                  e \in {x \in inputs : StillAwaited(x, joinrel.relids)
                                           = Range(n.unjoined_relids)}}
  /\ \A i, j \in 1..Len(joinrel.joininfo) :
       sameseti(joinrel.joininfo[i].unjoined_relids,
                joinrel.joininfo[j].unjoined_relids) => i = j
  /\ \A n \in Range(joinrel.joininfo) :
       /\ Cardinality(Range(n.jinfo_restrictinfo)) = Len(n.jinfo_restrictinfo)
       /\ Cardinality(Range(n.unjoined_relids)) = Len(n.unjoined_relids)

\* C18: when build_join_rel makes a node, each JoinInfo of outer_rel and
\* inner_rel with unjoined_relids U puts its clauses into the new node's
\* JoinInfo for U minus joinrelids when that difference is not empty and
\* nowhere when it is empty; the new node has at most one JoinInfo per set
\* of awaited rels and no clause twice within a JoinInfo.
C18_JoinlistComputed ==
  [][(JoinCall /\ call'.result[1] \notin DOMAIN relnodes) =>
       JoinlistOf(relnodes'[call'.result[1]],
                  Range(relnodes[call'.args[2]].joininfo)
                    \cup Range(relnodes[call'.args[3]].joininfo))]_vars

\* a joinrel has a JoinInfo that got one clause from JoinInfos of both
\* inputs, a second clause from another JoinInfo, and an input JoinInfo
\* with nothing left to await gave nothing
C18_Witness ==
  /\ call.op = "build_join_rel"
  /\ LET joinrel == relnodes[call.result[1]]
         outer_rel == relnodes[call.args[2]]
         inner_rel == relnodes[call.args[3]]
     IN /\ joinrel.relids = call.args[1]
        /\ \E n \in Range(joinrel.joininfo), e1 \in Range(outer_rel.joininfo),
              e2 \in Range(inner_rel.joininfo), c \in Range(JoinClauses) :
             /\ Len(n.jinfo_restrictinfo) >= 2
             /\ StillAwaited(e1, joinrel.relids) = Range(n.unjoined_relids)
             /\ StillAwaited(e2, joinrel.relids) = Range(n.unjoined_relids)
             /\ memberClause(c, e1.jinfo_restrictinfo)
             /\ memberClause(c, e2.jinfo_restrictinfo)
        /\ \E e \in Range(outer_rel.joininfo) :
             StillAwaited(e, joinrel.relids) = {}

\* the join of the last build_join_rel call is the lowest one that has all
\* the rels clause c mentions: the two inputs together have them, neither
\* input alone has
LowestJoinFor(c) ==
  /\ Range(c.relids) \subseteq Range(call.args[1])
  /\ ~(Range(c.relids) \subseteq Range(relnodes[call.args[2]].relids))
  /\ ~(Range(c.relids) \subseteq Range(relnodes[call.args[3]].relids))

\* C19 as stated: every clause distributed to the base rels it mentions is in
\* the restriction list build_join_rel returns at exactly the lowest join that
\* has all the rels of the clause: there, not below and not above.
C19_GraduatesExactlyOnce ==
  call.op = "build_join_rel" =>
    \A c \in Range(quals) :
      memberClause(c, call.result[2]) <=> LowestJoinFor(c)

\* C19: every clause distributed to the base rels it mentions is collected
\* for the restriction list at exactly the lowest join that has all the rels
\* of the clause; the list returned holds it there at most once and nowhere
\* else, and lacks it there only if it is mergejoinable and implied by the
\* clauses returned.
C19_GraduatesAtLowestJoin ==
  call.op = "build_join_rel" =>
    LET restrictlist == call.result[2]
        rlist == CollectRestrictlist(relnodes[call.result[1]],
                                     relnodes[call.args[2]], relnodes[call.args[3]])
    IN /\ \A c \in Range(quals) :
            /\ memberClause(c, rlist) <=> LowestJoinFor(c)
            /\ memberClause(c, restrictlist) => LowestJoinFor(c)
            /\ (LowestJoinFor(c) /\ ~memberClause(c, restrictlist)) =>
                 /\ c.mergejoinable
                 /\ c.right \in ImpliedEqual(c.left, restrictlist)
       /\ Cardinality(Range(restrictlist)) = Len(restrictlist)

\* the joinrel of rels 1 and 2 is joined to rel 3: the clause on all three
\* rels is returned now, the clause on rels 1 and 2 is not returned again, and
\* the restriction list of the join of 1 and 2 lacks the commuted clause
C19_Witness ==
  /\ call.op = "build_join_rel"
  /\ Len(call.args[1]) = 3
  /\ sameseti(relnodes[call.args[2]].relids, <<1, 2>>)
  /\ memberClause(JoinClauses[4], call.result[2])
  /\ ~memberClause(JoinClauses[1], call.result[2])
  /\ \E a, b \in Range(base_rel_list) :
       /\ relnodes[a].relids = <<1>>
       /\ relnodes[b].relids = <<2>>
       /\ ~memberClause(JoinClauses[2],
                        build_joinrel_restrictlist(relnodes[call.args[2]],
                                                   relnodes[a], relnodes[b]))
\* the JoinInfos of a joinrel await something, and only rels outside the
\* joinrel; no clause they store has all its rels inside the joinrel
AwaitsOutside(joinrel) ==
  \A n \in Range(joinrel.joininfo) :
    /\ n.unjoined_relids # NIL
    /\ Range(n.unjoined_relids) \cap Range(joinrel.relids) = {}
    /\ \A c \in Range(n.jinfo_restrictinfo) :
         ~(Range(c.relids) \subseteq Range(joinrel.relids))

\* each clause a JoinInfo of the joinrel stores comes from a JoinInfo of an
\* input that awaited at least the same rels
DerivedFrom(joinrel, inputs) ==
  \A n \in Range(joinrel.joininfo) :
    \A c \in Range(n.jinfo_restrictinfo) :
      \E e \in inputs :
        /\ memberClause(c, e.jinfo_restrictinfo)
        /\ Range(n.unjoined_relids) \subseteq Range(e.unjoined_relids)
        /\ Range(n.unjoined_relids) = StillAwaited(e, joinrel.relids)

\* C20: every JoinInfo of every join node awaits a non-empty set of rels that
\* is disjoint from the node's relids, and stores no clause whose rels are all
\* among the node's relids; when build_join_rel makes a node, each clause in
\* one of its JoinInfos comes from a JoinInfo of outer_rel or inner_rel whose
\* unjoined_relids include the new JoinInfo's.
C20_AwaitedShrinks ==
  [][/\ \A n \in Range(join_rel_list') : AwaitsOutside(relnodes'[n])
     /\ (JoinCall /\ call'.result[1] \notin DOMAIN relnodes) =>
          DerivedFrom(relnodes'[call'.result[1]],
                      Range(relnodes[call'.args[2]].joininfo)
                        \cup Range(relnodes[call'.args[3]].joininfo))]_vars

\* the join of two base rels keeps a clause for a third rel in a JoinInfo that
\* awaits strictly less than the input JoinInfo it came from, while another
\* JoinInfo of that input had nothing left to await and is not carried up
C20_Witness ==
  /\ call.op = "build_join_rel"
  /\ LET joinrel == relnodes[call.result[1]]
         outer_rel == relnodes[call.args[2]]
     IN /\ joinrel.relids = call.args[1]
        /\ Len(joinrel.relids) = 2
        /\ \E n \in Range(joinrel.joininfo), e \in Range(outer_rel.joininfo) :
             /\ memberClause(JoinClauses[4], n.jinfo_restrictinfo)
             /\ memberClause(JoinClauses[4], e.jinfo_restrictinfo)
             /\ Range(n.unjoined_relids) # Range(e.unjoined_relids)
             /\ Range(n.unjoined_relids) \subseteq Range(e.unjoined_relids)
        /\ \E e \in Range(outer_rel.joininfo) :
             /\ e.jinfo_restrictinfo # NIL
             /\ StillAwaited(e, joinrel.relids) = {}
\* the clauses the JoinInfos of a node store
ClausesOn(rel) ==
  UNION {Range(rel.joininfo[n].jinfo_restrictinfo) : n \in 1..Len(rel.joininfo)}

\* the two inputs of the last build_join_rel call are base rels R and S and
\* clause c, on exactly R and S, is the only join clause either of them has
OnlyClauseOf(c) ==
  LET outer_rel == relnodes[call.args[2]]
      inner_rel == relnodes[call.args[3]]
  IN /\ call.args[2] \in Range(base_rel_list)
     /\ call.args[3] \in Range(base_rel_list)
     /\ ClausesOn(outer_rel) \cup ClausesOn(inner_rel) = {c}
     /\ Range(c.relids) = Range(outer_rel.relids) \cup Range(inner_rel.relids)
     /\ \E n \in 1..Len(outer_rel.joininfo) :
          /\ sameseti(outer_rel.joininfo[n].unjoined_relids, inner_rel.relids)
          /\ memberClause(c, outer_rel.joininfo[n].jinfo_restrictinfo)
     /\ \E n \in 1..Len(inner_rel.joininfo) :
          /\ sameseti(inner_rel.joininfo[n].unjoined_relids, outer_rel.relids)
          /\ memberClause(c, inner_rel.joininfo[n].jinfo_restrictinfo)

\* C21: when base rels R and S have one join clause between them, on exactly
\* R and S, build_join_rel for R and S returns a restriction list that is that
\* clause once and nothing else, and the joinrel has no JoinInfo; a joinrel
\* that has every rel of every clause of the query has no JoinInfo.
C21_TwoRelJoin ==
  /\ call.op = "build_join_rel" =>
       \A c \in Range(quals) :
         OnlyClauseOf(c) =>
           /\ call.result[2] = <<c>>
           /\ relnodes[call.result[1]].joininfo = NIL
  /\ \A n \in Range(join_rel_list) :
       (\A c \in Range(quals) : Range(c.relids) \subseteq Range(relnodes[n].relids))
         => relnodes[n].joininfo = NIL

\* rels 1 and 3 are joined in a query whose only join clause is r1.x = r3.x,
\* and the joinrel is a new one
C21_Witness ==
  /\ call.op = "build_join_rel"
  /\ quals = <<JoinClauses[3]>>
  /\ OnlyClauseOf(JoinClauses[3])
  /\ call.result[2] = <<JoinClauses[3]>>
  /\ Len(join_rel_list) = 1
\* the expressions of a targetlist, in order
TlistExprs(tlist) == [k \in 1..Len(tlist) |-> tlist[k].expr]

\* C22: the targetlist of a joinrel build_join_rel makes is the entries of
\* outer_rel's targetlist followed by those of inner_rel's, none dropped and
\* none added, with resnos 1..n in that order.
C22_JoinTargetlist ==
  [][(JoinCall /\ call'.result[1] \notin DOMAIN relnodes) =>
       LET targetlist == relnodes'[call'.result[1]].targetlist
           outer_tlist == relnodes[call'.args[2]].targetlist
           inner_tlist == relnodes[call'.args[3]].targetlist
       IN /\ Len(targetlist) = Len(outer_tlist) + Len(inner_tlist)
          /\ TlistExprs(targetlist) = TlistExprs(outer_tlist) \o TlistExprs(inner_tlist)
          /\ \A k \in 1..Len(targetlist) : targetlist[k].resno = k]_vars

\* a joinrel made from a base rel as outer and a joinrel as inner: the
\* entries of the inner targetlist got new resnos
C22_Witness ==
  /\ call.op = "build_join_rel"
  /\ LET joinrel == relnodes[call.result[1]]
         outer_rel == relnodes[call.args[2]]
         inner_rel == relnodes[call.args[3]]
     IN /\ joinrel.relids = call.args[1]
        /\ Len(outer_rel.targetlist) = 2
        /\ Len(inner_rel.targetlist) = 4
        /\ Len(joinrel.targetlist) = 6
        /\ joinrel.targetlist[3].expr = inner_rel.targetlist[1].expr
        /\ joinrel.targetlist[3].resno # inner_rel.targetlist[1].resno
\* the relids of the nodes of base_rel_list followed by other_rel_list
BaseAndOtherRelids ==
  [n \in 1..(Len(base_rel_list) + Len(other_rel_list)) |->
     Head(relnodes[nconc(base_rel_list, other_rel_list)[n]].relids)]

\* the step is a call that finds the relid where it must not be
ConflictingCall ==
  \/ /\ call'.op = "build_base_rel"
     /\ \/ InRelList(relnodes, base_rel_list, call'.args[1])
        \/ InRelList(relnodes, other_rel_list, call'.args[1])
  \/ /\ call'.op = "build_other_rel"
     /\ InRelList(relnodes, base_rel_list, call'.args[1])

\* C23: build_base_rel for a relid that base_rel_list or other_rel_list has,
\* and build_other_rel for a relid that base_rel_list has, end in elog(ERROR)
\* and leave both lists and all nodes as they were; after every step no
\* relid is in both lists or twice in one.
C23_ConflictFails ==
  [][/\ ConflictingCall =>
          /\ call'.result = ERROR
          /\ base_rel_list' = base_rel_list
          /\ other_rel_list' = other_rel_list
          /\ relnodes' = relnodes
     /\ \A i, j \in 1..Len(BaseAndOtherRelids') :
          BaseAndOtherRelids'[i] = BaseAndOtherRelids'[j] => i = j]_vars

\* build_other_rel has just failed for a relid of a supported kind that has
\* a base rel, with both lists non-empty
C23_Witness ==
  /\ call.op = "build_other_rel"
  /\ call.result = ERROR
  /\ SupportedRTEKind(call.args[1])
  /\ InRelList(relnodes, base_rel_list, call.args[1])
  /\ other_rel_list # NIL
  /\ Len(base_rel_list) >= 2
\* the step leaves the rel lists and the nodes as they were
ListsUnchanged ==
  /\ base_rel_list' = base_rel_list
  /\ other_rel_list' = other_rel_list
  /\ relnodes' = relnodes

\* the step returns the node other_rel_list has for relid and changes nothing
ReturnsOtherRel(relid) ==
  /\ Len(call'.result) = 1
  /\ call'.result[1] \in Range(other_rel_list)
  /\ relnodes[call'.result[1]].relids = <<relid>>
  /\ relnodes[call'.result[1]].reloptkind = "RELOPT_OTHER_CHILD_REL"
  /\ ListsUnchanged

\* the step makes one node for relid, tagged as an other rel, puts it on
\* other_rel_list and returns it
CreatesOtherRel(relid) ==
  /\ Len(call'.result) = 1
  /\ call'.result[1] \notin DOMAIN relnodes
  /\ DOMAIN relnodes' = DOMAIN relnodes \cup {call'.result[1]}
  /\ \A n \in DOMAIN relnodes : relnodes'[n] = relnodes[n]
  /\ relnodes'[call'.result[1]].relids = <<relid>>
  /\ relnodes'[call'.result[1]].reloptkind = "RELOPT_OTHER_CHILD_REL"
  /\ other_rel_list' = lcons(call'.result[1], other_rel_list)
  /\ base_rel_list' = base_rel_list

C25_FindBaseRel ==
  [][call'.op = "find_base_rel" =>
       LET relid == call'.args[1]
       IN /\ ListsUnchanged
          /\ IF relid \in Range(BaseAndOtherRelids)
             THEN /\ Len(call'.result) = 1
                  /\ call'.result[1] \in Range(base_rel_list) \cup Range(other_rel_list)
                  /\ relnodes[call'.result[1]].relids = <<relid>>
             ELSE call'.result = ERROR]_vars

\* find_base_rel has returned a node of other_rel_list while base_rel_list
\* has nodes too
C25_Witness ==
  /\ call.op = "find_base_rel"
  /\ call.result # ERROR
  /\ call.result[1] \in Range(other_rel_list)
  /\ relnodes[call.result[1]].relids = <<call.args[1]>>
  /\ base_rel_list # NIL
\* the index and the direction of the last build_index_pathkeys call
CallIndex == call.args[1]

CallScandir == call.args[2]

\* the entries of an array before its end mark, none for a null pointer
ArrayEntries(array, endmark) ==
  IF \E n \in 1..Len(array) : array[n] = endmark
  THEN SubSeq(array, 1, (CHOOSE n \in 1..Len(array) :
                           /\ array[n] = endmark
                           /\ \A k \in 1..(n - 1) : array[k] # endmark) - 1)
  ELSE NIL

\* the indexed columns and the ordering operators of the index of the call
IndexColumns == ArrayEntries(CallIndex.indexkeys, 0)

IndexOperators == ArrayEntries(CallIndex.ordering, InvalidOid)

\* the index has columns and a declared ordering
HasOrdering == IndexColumns # NIL /\ IndexOperators # NIL

\* the expression position k of the ordering of the index is about: the
\* function call over all columns, or the Var of column k
IndexKeyExpr(k) ==
  IF CallIndex.indproc # InvalidOid
  THEN make_funcclause(CallIndex.indproc,
                       [n \in 1..Len(IndexColumns) |->
                          find_indexkey_var(IndexedRel, IndexColumns[n])])
  ELSE find_indexkey_var(IndexedRel, IndexColumns[k])

\* position k of the pathkeys list returned is about IndexKeyExpr(k) with
\* sortop: the canonical sublist for that PathKeyItem
PositionBuiltWith(k, sortop) ==
  LET item == makePathKeyItem(IndexKeyExpr(k), sortop)
  IN /\ member(item, heap[pathkeys[k]])
     /\ \/ pathkeys[k] \in Range(equi_key_list)
        \/ heap[pathkeys[k]] = <<item>>

\* C26: for a backward scan build_index_pathkeys builds each position with
\* the commutator of the ordering operator of its index column, not with the
\* operator; for an index of one column whose operator has no commutator it
\* returns NIL.
C26_BackwardCommutator ==
  (call.op = "build_index_pathkeys" /\ ScanDirectionIsBackward(CallScandir)) =>
    /\ \A k \in 1..Len(pathkeys) :
         /\ get_commutator(IndexOperators[k]) # InvalidOid
         /\ PositionBuiltWith(k, get_commutator(IndexOperators[k]))
         /\ ~member(makePathKeyItem(IndexKeyExpr(k), IndexOperators[k]),
                    heap[pathkeys[k]])
    /\ (/\ HasOrdering
        /\ Len(IndexColumns) = 1
        /\ get_commutator(IndexOperators[1]) = InvalidOid) => pathkeys = NIL

\* a backward scan of a two-column index gave two positions, the first of
\* them an equivalence set of the query
C26_Witness ==
  /\ call.op = "build_index_pathkeys"
  /\ ScanDirectionIsBackward(CallScandir)
  /\ CallIndex.indproc = InvalidOid
  /\ CallIndex.ordering = <<"int4lt", "int4gt", InvalidOid>>
  /\ Len(pathkeys) = 2
  /\ pathkeys[1] \in Range(equi_key_list)
  /\ Len(heap[pathkeys[1]]) = 2

\* column k of the index of the call has an ordering operator and, for a
\* backward scan, that operator has a commutator
ColumnUsable(k) ==
  /\ k <= Len(IndexOperators)
  /\ ScanDirectionIsBackward(CallScandir) =>
       get_commutator(IndexOperators[k]) # InvalidOid

\* the columns build_index_pathkeys looks at for operators: the first one of
\* a functional index, all of a plain one
OrderedColumns ==
  IF CallIndex.indproc # InvalidOid THEN {1} ELSE 1..Len(IndexColumns)

PlainForwardPositions ==
  (/\ CallIndex.indproc = InvalidOid
   /\ CallScandir = "ForwardScanDirection"
   /\ Len(IndexOperators) >= Len(IndexColumns)) =>
     /\ Len(pathkeys) = Len(IndexColumns)
     /\ \A k \in 1..Len(pathkeys) : PositionBuiltWith(k, IndexOperators[k])

\* C28: for a functional index build_index_pathkeys returns exactly one
\* position, built from the function call over all index columns and the
\* first ordering operator, however many columns there are (scanned backward,
\* with the commutator of that operator); it returns NIL instead only when the
\* index has no declared ordering or the backward scan finds no commutator;
\* for a plain index scanned forward with an operator on every column it
\* returns one position per column, in index order.
C28_FunctionalOnePosition ==
  call.op = "build_index_pathkeys" =>
    /\ CallIndex.indproc # InvalidOid =>
         IF ~HasOrdering THEN pathkeys = NIL
         ELSE IF ~ScanDirectionIsBackward(CallScandir)
         THEN Len(pathkeys) = 1 /\ PositionBuiltWith(1, IndexOperators[1])
         ELSE IF get_commutator(IndexOperators[1]) = InvalidOid
         THEN pathkeys = NIL
         ELSE /\ Len(pathkeys) = 1
              /\ PositionBuiltWith(1, get_commutator(IndexOperators[1]))
    /\ PlainForwardPositions

\* a forward scan of a functional index on two columns gave one position,
\* the equivalence set of the function call
C28_Witness ==
  /\ call.op = "build_index_pathkeys"
  /\ CallIndex.indproc # InvalidOid
  /\ CallScandir = "ForwardScanDirection"
  /\ IndexColumns = <<1, 2>>
  /\ Len(pathkeys) = 1
  /\ pathkeys[1] \in Range(equi_key_list)
  /\ member(makePathKeyItem("lower(A.X, A.W)", "int4lt"), heap[pathkeys[1]])
\* C29: for every mergejoinable clause given to add_equijoined_keys the
\* PathKeyItem of its left side and that of its right side resolve to equal
\* canonical sublists; make_pathkeys_for_mergeclauses returns one canonical
\* sublist per clause, in clause order, made from the left sides, and the
\* list is equal to the one the right sides give.
C29_EitherSide ==
  /\ \A ri \in RecordedClauses :
       equalList(Resolved(heap, equi_key_list, LeftItem(ri)),
                 Resolved(heap, equi_key_list, RightItem(ri)))
  /\ call.op = "make_pathkeys_for_mergeclauses" =>
       LET mergeclauses == call.args[1]
       IN /\ Len(pathkeys) = Len(mergeclauses)
          /\ \A k \in 1..Len(pathkeys) :
               /\ member(LeftItem(mergeclauses[k]), heap[pathkeys[k]])
               /\ equalList(heap[pathkeys[k]],
                            Resolved(heap, equi_key_list,
                                     RightItem(mergeclauses[k])))

\* pathkeys were made for two clauses; the sides of the first have different
\* expressions and sortops and are in one set with a third key, the second is
\* X = X, in no set
C29_Witness ==
  /\ call.op = "make_pathkeys_for_mergeclauses"
  /\ Len(pathkeys) = 2
  /\ LeftItem(call.args[1][1]) = makePathKeyItem("B.Y", "int4lt")
  /\ RightItem(call.args[1][1]) = makePathKeyItem("A.X", "int8lt")
  /\ Len(heap[pathkeys[1]]) >= 3
  /\ pathkeys[1] \in Range(equi_key_list)
  /\ LeftItem(call.args[1][2]) = RightItem(call.args[1][2])
  /\ pathkeys[2] \notin Range(equi_key_list)
\* the satisfying candidates no satisfying candidate costs strictly less than,
\* by compare_path_costs with the criterion of the call
CheapestSatisfying ==
  {j \in Satisfying :
     \A k \in Satisfying :
       compare_path_costs(paths[j], paths[k], call.args[1]) <= 0}

\* C30: get_cheapest_path_for_pathkeys replaces matched_path only by a later
\* candidate that costs strictly less and satisfies the ordering: among the
\* satisfying candidates of the same least cost it returns the one that comes
\* first in the list.
C30_EarliestOfCheapest ==
  (call.op = "get_cheapest_path_for_pathkeys" /\ Satisfying # {}) =>
    /\ matched_path[1] \in CheapestSatisfying
    /\ \A j \in CheapestSatisfying : matched_path[1] <= j

\* the path returned replaced an earlier satisfying candidate and was kept
\* against a later satisfying candidate of the same cost and another ordering
C30_Witness ==
  /\ call.op = "get_cheapest_path_for_pathkeys"
  /\ matched_path[1] # 0
  /\ \E j \in Satisfying : j < matched_path[1]
  /\ \E j \in CheapestSatisfying :
       /\ j > matched_path[1]
       /\ paths[j].pathkeys # paths[matched_path[1]].pathkeys

\* the integer lists two Relids arguments can be
RelidLists == SeqsUpTo(RelIds, Cardinality(RelIds))

\* C31: for every JoinInfo of outer_rel and inner_rel of a build_join_rel
\* call, each clause it stores is either among the clauses collected for the
\* restriction list or in a JoinInfo of the joinrel, never both and never
\* neither; is_subseti(a, b) holds exactly when set_differencei(a, b) is
\* empty, for the lists the call compares and for every pair of lists.
C31_OneRoutineAccepts ==
  /\ call.op = "build_join_rel" =>
       LET joinrel == relnodes[call.result[1]]
           rlist == CollectRestrictlist(joinrel, relnodes[call.args[2]],
                                        relnodes[call.args[3]])
       IN \A e \in InputJoinInfos :
            /\ e.jinfo_restrictinfo # NIL
            /\ is_subseti(e.unjoined_relids, joinrel.relids)
                 <=> set_differencei(e.unjoined_relids, joinrel.relids) = NIL
            /\ \A c \in Range(e.jinfo_restrictinfo) :
                 memberClause(c, rlist) <=> c \notin ClausesOn(joinrel)
  /\ \A l1, l2 \in RelidLists :
       is_subseti(l1, l2) <=> set_differencei(l1, l2) = NIL

\* the inner input of the call has a JoinInfo whose clauses went to the
\* restriction list and the outer input one whose clauses went to a JoinInfo
\* of the joinrel made
C31_Witness ==
  /\ call.op = "build_join_rel"
  /\ relnodes[call.result[1]].relids = call.args[1]
  /\ \E e \in Range(relnodes[call.args[3]].joininfo) :
       /\ e.jinfo_restrictinfo # NIL
       /\ Range(e.jinfo_restrictinfo) \subseteq Range(call.result[2])
  /\ \E e \in Range(relnodes[call.args[2]].joininfo) :
       /\ e.jinfo_restrictinfo # NIL
       /\ Range(e.jinfo_restrictinfo) \subseteq ClausesOn(relnodes[call.result[1]])

\* a joininfo list as a set: the rels awaited and the clauses stored of each
\* JoinInfo
JoinInfoSet(joininfo) ==
  {<<Range(j.unjoined_relids), Range(j.jinfo_restrictinfo)>> :
     j \in Range(joininfo)}

\* the joininfo a joinrel for set T has whatever it is built from: one JoinInfo
\* per awaited set, holding the distributed clauses that mention a rel of T
\* and a rel outside T, each under the rels it mentions outside T
JoinInfoFor(T) ==
  LET waiting == {c \in Range(quals) : /\ Range(c.relids) \cap T # {}
                                       /\ ~(Range(c.relids) \subseteq T)}
  IN {<<U, {c \in waiting : Range(c.relids) \ T = U}>> :
        U \in {Range(c.relids) \ T : c \in waiting}}

\* C32: once every clause is attached to each base rel it mentions, awaiting
\* the other rels it mentions, the joininfo of every join node is, up to
\* ordering, determined by the node's set of rels: it holds exactly the
\* clauses that mention a rel of the node and a rel outside it, each under the
\* rels it mentions outside the node; the joinlist any pair of inputs asked
\* for that node would build is the same up to ordering.
C32_JoinlistOfSet ==
  /\ \A n \in Range(join_rel_list) :
       /\ JoinInfoSet(relnodes[n].joininfo) = JoinInfoFor(Range(relnodes[n].relids))
       /\ Cardinality(JoinInfoSet(relnodes[n].joininfo)) = Len(relnodes[n].joininfo)
  /\ call.op = "build_join_rel" =>
       LET joinrel == relnodes[call.result[1]]
       IN JoinInfoSet(build_joinrel_joinlist(
                        [joinrel EXCEPT !.joininfo = NIL],
                        relnodes[call.args[2]], relnodes[call.args[3]]).joininfo)
            = JoinInfoSet(joinrel.joininfo)

\* a joinrel was found for a pair of inputs that would have built its
\* joininfo with the clauses in another order
C32_Witness ==
  /\ call.op = "build_join_rel"
  /\ LET joinrel == relnodes[call.result[1]]
         built == build_joinrel_joinlist([joinrel EXCEPT !.joininfo = NIL],
                    relnodes[call.args[2]], relnodes[call.args[3]]).joininfo
     IN /\ joinrel.relids # call.args[1]
        /\ joinrel.joininfo # NIL
        /\ built # joinrel.joininfo

\* the base rels of the rangetable indexes in T
BaseRelsOf(T) == {b \in Range(base_rel_list) : Head(relnodes[b].relids) \in T}

\* the targetlist build_join_rel would make for the pair of the last call
PairTlist ==
  LET new_outer_tlist == new_join_tlist(relnodes[call.args[2]].targetlist, 1)
  IN nconc(new_outer_tlist,
           new_join_tlist(relnodes[call.args[3]].targetlist,
                          Len(new_outer_tlist) + 1))

\* C33: the targetlist of every join node holds the expressions of the
\* targetlists of the base rels in the node's relids, each once and no other,
\* whichever pair of inputs the node was made from; the targetlist the pair of
\* a later call for the same relids would make holds the same expressions,
\* only the order may differ.
C33_TlistOfSet ==
  /\ \A n \in Range(join_rel_list) :
       LET exprs == TlistExprs(relnodes[n].targetlist)
           base == BaseRelsOf(Range(relnodes[n].relids))
       IN /\ Range(exprs) =
               UNION {Range(TlistExprs(relnodes[b].targetlist)) : b \in base}
          /\ Cardinality(Range(exprs)) = Len(exprs)
          /\ \A b \in base :
               Cardinality(Range(TlistExprs(relnodes[b].targetlist)))
                 = Len(relnodes[b].targetlist)
  /\ call.op = "build_join_rel" =>
       /\ Range(TlistExprs(PairTlist))
            = Range(TlistExprs(relnodes[call.result[1]].targetlist))
       /\ Len(PairTlist) = Len(relnodes[call.result[1]].targetlist)

\* the node for three rels was found for a pair of inputs that would have
\* made its targetlist in another order
C33_Witness ==
  /\ call.op = "build_join_rel"
  /\ Len(call.args[1]) = 3
  /\ relnodes[call.result[1]].relids # call.args[1]
  /\ Len(PairTlist) >= 4
  /\ TlistExprs(PairTlist) # TlistExprs(relnodes[call.result[1]].targetlist)

\* some key of the pathkey sublist is the left operand of the clause with its
\* left sortop, or the right operand with its right sortop
PositionMatches(pathkey, restrictinfo) ==
  \E j \in 1..Len(pathkey) :
    \/ /\ pathkey[j].key = restrictinfo.leftop
       /\ pathkey[j].sortop = restrictinfo.left_sortop
    \/ /\ pathkey[j].key = restrictinfo.rightop
       /\ pathkey[j].sortop = restrictinfo.right_sortop

\* C34: find_mergeclauses_for_pathkeys returns clauses of restrictinfos, no
\* two of them equal, the i-th matching position i of the pathkeys; it stops
\* at the first position no unused clause matches, so the list is no longer
\* than the pathkeys, and it is NIL, no error, when nothing matches position 1.
C34_MergeclausesMatchPositions ==
  call.op = "find_mergeclauses_for_pathkeys" =>
    LET pks == call.args[1]
        restrictinfos == call.args[2]
        mergeclauses == call.result
    IN /\ Len(mergeclauses) <= Len(pks)
       /\ \A i \in 1..Len(mergeclauses) :
            /\ mergeclauses[i] \in Range(restrictinfos)
            /\ PositionMatches(pks[i], mergeclauses[i])
       /\ \A i, j \in 1..Len(mergeclauses) :
            mergeclauses[i] = mergeclauses[j] => i = j
       /\ Len(mergeclauses) < Len(pks) =>
            \A ri \in Range(restrictinfos) \ Range(mergeclauses) :
              ~PositionMatches(pks[Len(mergeclauses) + 1], ri)
       /\ (pks # NIL /\ \A ri \in Range(restrictinfos) :
                          ~PositionMatches(pks[1], ri))
            => mergeclauses = NIL

\* two positions were matched, the second through the second key of its
\* sublist, and a clause on the key of position 1 with another sortop was not
\* taken
C34_Witness ==
  /\ call.op = "find_mergeclauses_for_pathkeys"
  /\ Len(call.result) = 2
  /\ Len(call.args[1][2]) = 2
  /\ ~PositionMatches(<<call.args[1][2][1]>>, call.result[2])
  /\ \E ri \in Range(call.args[2]) :
       /\ ~PositionMatches(call.args[1][1], ri)
       /\ \E k \in Range(call.args[1][1]) : k.key \in {ri.leftop, ri.rightop}

\* distinct clauses of the list can be assigned to positions 1..n of the
\* pathkeys, each matching its position
Assignable(pks, restrictinfos, n) ==
  \E f \in [1..n -> Range(restrictinfos)] :
    /\ \A i \in 1..n : PositionMatches(pks[i], f[i])
    /\ \A i, j \in 1..n : f[i] = f[j] => i = j

\* no clause of the list matches two positions of the pathkeys
OnePositionEach(pks, restrictinfos) ==
  \A ri \in Range(restrictinfos) :
    \A i, j \in 1..Len(pks) :
      (PositionMatches(pks[i], ri) /\ PositionMatches(pks[j], ri)) => i = j

C36_JoinPathkeysAreOuter ==
  [][call'.op = "build_join_pathkeys" =>
       /\ pathkeys' = pathkeys
       /\ heap' = heap
       /\ equi_key_list' = equi_key_list
       /\ call.op = "canonicalize_pathkeys" =>
            \A i \in 1..Len(pathkeys') :
              \A m \in Range(heap'[pathkeys'[i]]) :
                \A k \in Reach({m}, recorded) :
                  member(k, heap'[pathkeys'[i]])]_vars

\* canonical pathkeys were returned whose first position has three keys, two
\* of them recorded equal through the third only, and one not of the join
\* rel's targetlist
C36_Witness ==
  /\ call.op = "build_join_pathkeys"
  /\ pathkeys # NIL
  /\ pathkeys[1] \in Range(equi_key_list)
  /\ Len(heap[pathkeys[1]]) = 3
  /\ \E k1, k2 \in Range(heap[pathkeys[1]]) :
       /\ k1 # k2
       /\ {k1, k2} \notin recorded
       /\ k2.key \notin Range(call.args[2])

\* the open cursor, the executor state of its query and the position in it
Cursor == portals["c"]

OnRow == Cursor.estate.position \in 1..Cursor.estate.ntuples

BeforeFirst == Cursor.estate.position = 0

PastLast == Cursor.estate.position = Cursor.estate.ntuples + 1

\* C37 as stated: after any sequence of PerformPortalFetch calls on a portal
\* that started before the first row, the portal is on a row exactly when
\* atStart and atEnd are both false, atStart is true exactly when it is before
\* the first row, atEnd exactly when it is past the last row, and both are
\* true only when the query yields no row.
C37_FlagsArePosition ==
  /\ OnRow <=> (~Cursor.atStart /\ ~Cursor.atEnd)
  /\ Cursor.atStart <=> BeforeFirst
  /\ Cursor.atEnd <=> PastLast
  /\ (Cursor.atStart /\ Cursor.atEnd) => Cursor.estate.ntuples = 0

\* C37: after any sequence of PerformPortalFetch calls on a portal that
\* started before the first row, the portal is on a row exactly when atStart
\* and atEnd are both false, and both are true only when the query yields no
\* row; when it yields a row, atStart is true exactly when the portal is
\* before the first row and atEnd exactly when it is past the last row; when
\* it yields none, atStart stays true and atEnd is true exactly when a fetch
\* has moved the executor forward, off the end.
C37_FlagsArePositionWithRows ==
  /\ OnRow <=> (~Cursor.atStart /\ ~Cursor.atEnd)
  /\ (Cursor.atStart /\ Cursor.atEnd) => Cursor.estate.ntuples = 0
  /\ Cursor.estate.ntuples > 0 =>
       /\ Cursor.atStart <=> BeforeFirst
       /\ Cursor.atEnd <=> PastLast
  /\ Cursor.estate.ntuples = 0 =>
       /\ Cursor.atStart
       /\ Cursor.atEnd <=> PastLast

\* the portal is back on the second of three rows after a backward fetch
\* from past the last row
C37_Witness ==
  /\ call.op = "PerformPortalFetch"
  /\ Cursor.estate.ntuples = 3
  /\ call.before["c"].atEnd
  /\ call.args[2] = FALSE
  /\ Cursor.estate.position = 2
  /\ ~Cursor.atStart
  /\ ~Cursor.atEnd

\* the last call was a FETCH 0 (count 0, a destination other than None) on the
\* open cursor, which was on a row
RefetchedOnRow ==
  /\ call.op = "PerformPortalFetch"
  /\ call.args[1] = "c"
  /\ call.args[3] = 0
  /\ call.args[4] # "None"
  /\ ~call.before["c"].atStart
  /\ ~call.before["c"].atEnd

\* C38: PerformPortalFetch with count 0 and a destination other than None, on
\* a portal that is on a row, sends exactly that row: it runs the executor
\* one row backward with the output thrown away, then one row forward, and
\* leaves the portal on the same row with atStart and atEnd false, at every
\* row, the first and the last included.
C38_RefetchCurrentRow ==
  RefetchedOnRow =>
    LET before == call.before["c"]
        runs == call.result.runs
    IN /\ before.estate.position \in 1..before.estate.ntuples
       /\ call.result.rows = <<before.estate.position>>
       /\ Cursor.estate.position = before.estate.position
       /\ ~Cursor.atStart
       /\ ~Cursor.atEnd
       /\ Len(runs) = 2
       /\ runs[1] = [direction |-> "BackwardScanDirection", count |-> 1,
                     dest |-> "None"]
       /\ runs[2].direction = "ForwardScanDirection"
       /\ runs[2].count = 1
       /\ runs[2].dest # "None"
       /\ call.result.completionTag \in {NULL, "FETCH 1"}

\* the only row of a one-row result was fetched again: the move backward ran
\* off the start and the fetch forward reached the last row
C38_Witness ==
  /\ RefetchedOnRow
  /\ Cursor.estate.ntuples = 1
  /\ call.result.rows = <<1>>
  /\ call.result.completionTag = "FETCH 1"

\* the last call was a MOVE 0: count 0 and destination None
MovedZero ==
  /\ call.op = "PerformPortalFetch"
  /\ call.args[3] = 0
  /\ call.args[4] = "None"

\* C39: PerformPortalFetch with count 0 and destination None never runs the
\* executor and leaves atStart and atEnd (and the rest of every portal) as
\* they were; the completion tag, when a buffer is given, is "MOVE 1" iff
\* the portal exists and is on a row, and "MOVE 0" otherwise.
C39_MoveZeroOnlyAsks ==
  MovedZero =>
    LET name == call.args[1]
        before == call.before
        on_row == /\ name \in DOMAIN before
                  /\ ~before[name].atStart
                  /\ ~before[name].atEnd
    IN /\ call.result.runs = NIL
       /\ call.result.rows = NIL
       /\ portals = before
       /\ call.args[5] =>
            /\ call.result.completionTag \in {"MOVE 0", "MOVE 1"}
            /\ call.result.completionTag = "MOVE 1" <=> on_row
       /\ ~call.args[5] => call.result.completionTag = NULL

\* a MOVE 0 on a row answered "MOVE 1"
C39_Witness ==
  /\ MovedZero
  /\ call.args[1] = "c"
  /\ ~Cursor.atStart
  /\ ~Cursor.atEnd
  /\ Cursor.estate.position = 2
  /\ call.result.completionTag = "MOVE 1"

\* the last call was on the open cursor and went on past the return of a
\* MOVE 0
PastEarlyReturn ==
  /\ call.op = "PerformPortalFetch"
  /\ call.args[1] = "c"
  /\ ~(call.args[3] = 0 /\ call.args[4] = "None")

\* the last call reached the choice of direction going forward with atEnd
\* true, going backward with atStart true, or with count 0 (a FETCH 0 on a
\* row has set count to 1 by then)
NothingToFetch ==
  /\ PastEarlyReturn
  /\ LET before == call.before["c"]
         forward == call.args[2]
         count == call.args[3]
     IN \/ forward /\ before.atEnd
        \/ ~forward /\ before.atStart
        \/ count = 0 /\ (before.atStart \/ before.atEnd)

\* the last call named no portal or a portal that does not exist
NoSuchPortal ==
  /\ call.op = "PerformPortalFetch"
  /\ call.args[1] \notin DOMAIN call.before

=============================================================================
